---- MODULE Spec2Model ----
(***************************************************************************)
(* A model of ducky's interactive command lifecycle (src/ducky/ducky.py):  *)
(* the conversation history kept by RubberDuck, the command extractor, the *)
(* shell runner's folding of results into the history, and the input       *)
(* dispatcher of InlineInterface.                                          *)
(*                                                                         *)
(* Text is a sequence of one-character strings, so that strip, lower,      *)
(* splitlines, startswith and find are computed as Python computes them.   *)
(* A long literal of the source (the base system prompt, the command-mode  *)
(* instruction, the explain prefix) is one opaque character.               *)
(***************************************************************************)
EXTENDS Integers, Sequences, FiniteSets, TLC

(***************************************************************************)
(* Bounds of the model.                                                    *)
(***************************************************************************)
\* The largest number of user/assistant exchanges a history may hold.
MaxTurns == 2

(***************************************************************************)
(* str helpers (Python's str methods used by the source).                  *)
(***************************************************************************)
NL == "\n"

IsSpace(c) == c \in {" ", NL, "\t"}

RECURSIVE LStrip(_)
LStrip(s) ==
    IF s = <<>> THEN <<>>
    ELSE IF IsSpace(Head(s)) THEN LStrip(Tail(s)) ELSE s

RECURSIVE RStrip(_)
RStrip(s) ==
    IF s = <<>> THEN <<>>
    ELSE IF IsSpace(s[Len(s)]) THEN RStrip(SubSeq(s, 1, Len(s) - 1)) ELSE s

Strip(s) == LStrip(RStrip(s))

LowerChar(c) ==
    CASE c = "R" -> "r"
      [] c = "U" -> "u"
      [] c = "N" -> "n"
      [] c = "Y" -> "y"
      [] c = "E" -> "e"
      [] c = "S" -> "s"
      [] c = "T" -> "t"
      [] OTHER -> c

Lower(s) == [i \in 1..Len(s) |-> LowerChar(s[i])]

StartsWith(s, p) == Len(s) >= Len(p) /\ SubSeq(s, 1, Len(p)) = p

\* str.find(c): the first index of c (1-based), 0 when absent (Python's -1).
Find(s, c) ==
    IF \E i \in 1..Len(s) : s[i] = c
    THEN CHOOSE i \in 1..Len(s) : s[i] = c /\ \A j \in 1..(i - 1) : s[j] # c
    ELSE 0

\* str.splitlines(): cut at every newline; a trailing newline adds no line.
RECURSIVE SplitLines(_)
SplitLines(s) ==
    IF s = <<>> THEN <<>>
    ELSE LET k == Find(s, NL) IN
         IF k = 0 THEN <<s>>
         ELSE <<SubSeq(s, 1, k - 1)>> \o SplitLines(SubSeq(s, k + 1, Len(s)))

\* str.split(): the words between runs of whitespace.
RECURSIVE Words(_)
Words(s) ==
    LET t == LStrip(s) IN
    IF t = <<>> THEN <<>>
    ELSE LET k == IF \E i \in 1..Len(t) : IsSpace(t[i])
                  THEN (CHOOSE i \in 1..Len(t) :
                            IsSpace(t[i]) /\ \A j \in 1..(i - 1) : ~IsSpace(t[j])) - 1
                  ELSE Len(t)
         IN <<SubSeq(t, 1, k)>> \o Words(SubSeq(t, k + 1, Len(t)))

\* sep.join(parts)
RECURSIVE Join(_, _)
Join(sep, parts) ==
    IF parts = <<>> THEN <<>>
    ELSE IF Len(parts) = 1 THEN parts[1]
    ELSE parts[1] \o sep \o Join(sep, Tail(parts))

(***************************************************************************)
(* Optional values: None is the empty sequence, a value v is <<v>>.        *)
(***************************************************************************)
None == <<>>
Some(v) == <<v>>

(***************************************************************************)
(* RubberDuck._extract_command                                             *)
(***************************************************************************)
\* The backquote character (the string lexer of TLA+ cannot hold it literally).
Backtick == "<bq>"

Fence == <<Backtick, Backtick, Backtick>>

\* A loop that goes on after the first line it keeps, so that a later line
\* takes its place.
RECURSIVE ScanLinesLast(_, _)
ScanLinesLast(lines, in_block) ==
    IF lines = <<>> THEN None
    ELSE LET stripped == Strip(Head(lines))
             later == ScanLinesLast(Tail(lines), in_block)
         IN IF StartsWith(stripped, Fence)
            THEN IF in_block THEN None ELSE ScanLinesLast(Tail(lines), TRUE)
            ELSE IF stripped # <<>> /\ later = None THEN Some(stripped)
            ELSE later

\* A loop that takes a line for a fence only when it is the bare delimiter.
RECURSIVE ScanLinesBareFence(_, _)
ScanLinesBareFence(lines, in_block) ==
    IF lines = <<>> THEN None
    ELSE LET stripped == Strip(Head(lines)) IN
         IF stripped = Fence
         THEN IF in_block THEN None ELSE ScanLinesBareFence(Tail(lines), TRUE)
         ELSE IF stripped # <<>> THEN Some(stripped)
         ELSE ScanLinesBareFence(Tail(lines), in_block)

\* The for loop over the lines: the first line kept, or None.
RECURSIVE ScanLines(_, _)
ScanLines(lines, in_block) ==
    IF lines = <<>> THEN None
    ELSE LET stripped == Strip(Head(lines)) IN
         IF StartsWith(stripped, Fence)
         THEN IF in_block THEN None ELSE ScanLines(Tail(lines), TRUE)
         ELSE IF stripped # <<>> THEN Some(stripped)
         ELSE ScanLines(Tail(lines), in_block)

\* Cut at the first semicolon and strip.
CutSemicolon(command) ==
    LET first_semicolon == Find(command, ";") IN
    IF first_semicolon # 0
    THEN Strip(SubSeq(command, 1, first_semicolon - 1))
    ELSE command

\* An _extract_command that leaves the semicolon and what follows it.
ExtractCommandUncut(content) ==
    LET lines == SplitLines(Strip(content))
        command_lines == ScanLines(lines, FALSE)
    IN IF lines = <<>> THEN None
       ELSE IF command_lines = None THEN None
       ELSE LET command == command_lines[1]
            IN IF command = <<>> THEN None ELSE Some(command)

\* An _extract_command that returns what is left before the semicolon even
\* when nothing is.
ExtractCommandEmpty(content) ==
    LET lines == SplitLines(Strip(content))
        command_lines == ScanLines(lines, FALSE)
    IN IF lines = <<>> THEN None
       ELSE IF command_lines = None THEN None
       ELSE Some(CutSemicolon(command_lines[1]))

\* _extract_command(content)
ExtractCommand(content) ==
    LET lines == SplitLines(Strip(content))
        command_lines == ScanLines(lines, FALSE)
    IN IF lines = <<>> THEN None
       ELSE IF command_lines = None THEN None
       ELSE LET command == CutSemicolon(command_lines[1])
            IN IF command = <<>> THEN None ELSE Some(command)

(***************************************************************************)
(* Literals of the source.                                                 *)
(***************************************************************************)
\* RubberDuck.__init__: the dedented base system prompt.
BasePrompt == <<"[base system prompt]">>

\* update_system_prompt: the two lines that head the crumb section (the
\* first starts with a newline of its own).
CrumbsIntro == <<NL, "[Crumbs are simple scripts you can run with bash, uv, or bun.]">>
CrumbsTitle == <<"C", "r", "u", "m", "b", "s", ":">>

\* send_prompt: the command-mode instruction.
Instruction == <<"[Return a single bash command ...]">>

\* _explain_last_command: the text before the quoted output (it ends with
\* an empty line).
ExplainPrefix == <<"[The user ran a shell command above. ...]", NL, NL>>

StderrTag == <<"[stderr]", NL>>

\* polling_session and _interval_polling: the default poll prompt, the
\* heading of the script output and the text for an empty output.
DefaultPollPrompt == <<"[Analyze this output.]">>
ScriptOutputHeading == <<NL, NL, "[Script output:]", NL>>
NoScriptOutput == <<"(no output)">>
NoOutputMarker == <<"(command produced no output)">>

\* str(int) for the return codes of the model.
RECURSIVE NatText(_)
NatText(n) ==
    LET digit == <<"0", "1", "2", "3", "4", "5", "6", "7", "8", "9">>[(n % 10) + 1]
    IN IF n < 10 THEN <<digit>> ELSE NatText(n \div 10) \o <<digit>>

IntText(n) == IF n < 0 THEN <<"-">> \o NatText(-n) ELSE NatText(n)

ExitStatus(returncode) == <<"(exit status ">> \o IntText(returncode) \o <<")">>

\* The texts the key bindings hand to the loop for Ctrl+R and Ctrl+S.
RUN_LAST == <<"__RUN_LAST__">>
COPY_LAST == <<"__COPY_LAST__">>
\* input() raising EOFError.
EOF == <<"<EOF>">>

(***************************************************************************)
(* What the user and the environment may supply.                           *)
(***************************************************************************)
T_run == <<"/", "r", "u", "n">>
T_colon_run == <<":", "r", "u", "n">>
T_clear == <<"/", "c", "l", "e", "a", "r">>
T_reset == <<"/", "r", "e", "s", "e", "t">>
T_model == <<"/", "m", "o", "d", "e", "l">>
T_local == <<"/", "l", "o", "c", "a", "l">>
T_cloud == <<"/", "c", "l", "o", "u", "d">>
T_help == <<"/", "h", "e", "l", "p">>
T_crumbs == <<"/", "c", "r", "u", "m", "b", "s">>
T_stop_poll == <<"/", "s", "t", "o", "p", "-", "p", "o", "l", "l">>
T_poll == <<"/", "p", "o", "l", "l">>
T_bang == <<"!">>

\* Lines typed at the prompt.
InputTexts ==
    { <<>>,
      T_run, <<":", "R", "u", "n", " ">>,
      <<"/", "R", "E", "S", "E", "T">>,
      T_help, T_model, T_cloud,
      <<" ", "!", " ", "l", "s">>, <<"!", " ">>,
      <<" ", "c", " ", "g", "o", NL>>,
      T_poll, <<"/", "p", "o", "l", "l", " ", "c">> }

\* Contents the model may reply with.
Replies ==
    { <<"l", "s">>,
      <<Backtick, Backtick, Backtick, NL, "p", "w", "d", ";", "l", "s", NL,
        Backtick, Backtick, Backtick>>,
      <<>> }

\* What a spawned command may produce: [stdout, stderr, returncode].
ShellResults ==
    { [stdout |-> <<"h", "i", NL>>, stderr |-> <<>>, returncode |-> 0],
      [stdout |-> <<" ", NL>>, stderr |-> <<"e", NL>>, returncode |-> 1] }

\* Answers to "Run suggested command? [y/N]".
Answers ==
    { <<"y">>, <<" ", "Y", "E", "S", " ">>, <<"y", "e", "s">>,
      <<>>, <<" ">>, <<"n">>, <<"y", "e">> }

\* The crumbs load_crumbs may find: name and description.
CrumbSets ==
    { <<>>,
      <<[name |-> <<"c">>, description |-> Some(<<"d">>),
         path |-> <<"[crumbs/c/c.sh]">>, poll_type |-> None, poll_prompt |-> None]>> }

\* The model the assistant starts with, and what client.list may answer for
\* a host (list_models returns the empty list when the listing fails).
DefaultModel == <<"m", "1">>
ModelLists == { <<>>, <<DefaultModel, <<"m", "2">>>> }

\* Answers typed into the two menus of _select_model.
MenuAnswers ==
    { <<"E", "s", "c">>, <<" ", "2">>, <<"m", "2">>, <<"9">> }

\* The --directory context handed to the interface (None without the flag).
Codes == { None, Some(<<"[code]">>) }

\* Python truthiness of an optional text: neither None nor "".
Truthy(opt) == opt # None /\ opt[1] # <<>>

(***************************************************************************)
(* State.                                                                  *)
(***************************************************************************)
VARIABLES
    phase,              \* where ducky() is: "main", "prompt" (InlineInterface.run
                        \* awaits a line), "confirm", "exited", "crashed"
    messages,           \* RubberDuck.messages
    system_prompt,      \* RubberDuck.system_prompt
    crumbs,             \* RubberDuck.crumbs
    model,              \* RubberDuck.model
    listed,             \* number of calls of client.list so far
    code,               \* InlineInterface.code
    code_sent,          \* InlineInterface._code_sent
    last_command,       \* InlineInterface.last_command
    pending_command,    \* InlineInterface.pending_command
    last_shell_output,  \* InlineInterface.last_shell_output (None is FALSE)
    result_command,     \* ducky(): result.command of the piped prompt
    text,               \* the line last read from the user
    notice,             \* the last notice printed on the console
    chats,              \* number of calls of client.chat so far
    spawned,            \* number of shell subprocesses spawned so far
    last_spawn,         \* the command of the latest subprocess
    running_polling,    \* InlineInterface.running_polling
    poll_pc,            \* where _interval_polling is: "off", "top" (the while
                        \* test), "script", "chat", "sleep" (the three awaits)
    shutdown,           \* _interval_polling: shutdown_event.is_set()
    poll_crumb,         \* polling_session: the crumb polled
    poll_result,        \* _interval_polling: result of the script run
    call,               \* a function applied on its own: its name and argument
    returned,           \* what that call returned (None while it has not)
    main_pc,            \* where the task that runs the polling session is
    in_flight,          \* number of client.chat calls awaited at this instant
    child,              \* the child process: "none", "running", "killed"
                        \* (not yet waited on), "gone" (ended and reaped)
    child_lines,        \* per stream, the lines the child has yet to write
    reader,             \* per stream, where its read_stream task is
    accumulated_output, \* _continuous_polling: accumulated_output
    last_analyzed_length, \* _continuous_polling: last_analyzed_length
    current_length,     \* _continuous_polling: current_length
    submitted,          \* the lines of the analysis prompts sent so far
    handler,            \* whether the SIGINT handler of the session is installed
    typed,              \* lines typed at the terminal that no prompt has read
    log_ok,             \* whether a write to the transcript file succeeds
    store               \* CrumbManager: the content of its crumbs file

vars == <<phase, messages, system_prompt, crumbs, model, listed, code, code_sent, last_command,
          pending_command, last_shell_output, result_command, text, notice,
          chats, spawned, last_spawn, running_polling, poll_pc, shutdown,
          poll_crumb, poll_result, call, returned, main_pc, in_flight, child,
          child_lines, reader, accumulated_output, last_analyzed_length,
          current_length, submitted, handler, typed, log_ok, store>>

unit == <<call, returned>>

session == <<main_pc, in_flight, child, child_lines, reader, accumulated_output,
             last_analyzed_length, current_length, submitted, handler, typed,
             log_ok>>

tasks == <<session, store>>

\* The two pipes of a child process.
Streams == {"stdout", "stderr"}

poll == <<running_polling, poll_pc, shutdown, poll_crumb, poll_result>>

ui == <<last_command, pending_command, last_shell_output>>

\* The subprocesses spawned and the calls made to the model backend so far.
Turns == spawned + chats + listed

Msg(role, content) == [role |-> role, content |-> content]

(***************************************************************************)
(* RubberDuck                                                              *)
(***************************************************************************)
CrumbLine(c) ==
    <<"-", " ">> \o c.name \o <<":", " ">>
        \o (IF Truthy(c.description) THEN c.description[1] ELSE <<"[no description]">>)

\* update_system_prompt: the new value of self.system_prompt.
RefreshedPrompt(sp, cr) ==
    LET prompt_lines ==
            <<sp>> \o (IF cr # <<>>
                       THEN <<CrumbsIntro, CrumbsTitle>>
                                \o [i \in 1..Len(cr) |-> CrumbLine(cr[i])]
                       ELSE <<>>)
    IN Join(<<NL>>, prompt_lines)

\* update_system_prompt: the messages with the system message set.
WithSystem(msgs, sp) ==
    IF msgs # <<>> /\ msgs[1].role = "system"
    THEN [msgs EXCEPT ![1].content = sp]
    ELSE <<Msg("system", sp)>> \o msgs

\* send_prompt: the content of the user message (quick is False in ducky()).
UserContent(prompt, code_arg, command_mode) ==
    LET stripped == Strip(prompt)
        with_code ==
            IF Truthy(code_arg)
            THEN IF stripped # <<>> THEN stripped \o <<NL, NL>> \o code_arg[1]
                 ELSE code_arg[1]
            ELSE stripped
    IN IF command_mode
       THEN IF with_code # <<>> THEN with_code \o <<NL, NL>> \o Instruction
            ELSE Instruction
       ELSE with_code

\* send_prompt up to the await of client.chat: the system message refreshed
\* and the user message appended.
Asked(msgs, sp, cr, prompt, code_arg, command_mode) ==
    Append(WithSystem(msgs, RefreshedPrompt(sp, cr)),
           Msg("user", UserContent(prompt, code_arg, command_mode)))

\* send_prompt after client.chat returned content.
Answered(msgs, content) == Append(msgs, Msg("assistant", content))

\* A clear_history that drops the system message with the rest.
ClearedToNothing(msgs) == <<>>

\* clear_history
Cleared(msgs) == IF msgs # <<>> THEN <<msgs[1]>> ELSE msgs

(***************************************************************************)
(* run_shell_and_print                                                     *)
(***************************************************************************)
\* A fold that notes the exit status of a positive return code only.
FoldedOutputPositiveOnly(result) ==
    LET combined_output ==
            (IF Strip(result.stdout) # <<>> THEN <<RStrip(result.stdout)>> ELSE <<>>)
         \o (IF Strip(result.stderr) # <<>>
             THEN <<StderrTag \o RStrip(result.stderr)>> ELSE <<>>)
         \o (IF result.returncode > 0 THEN <<ExitStatus(result.returncode)>> ELSE <<>>)
    IN Join(<<NL, NL>>,
            IF combined_output = <<>> THEN <<NoOutputMarker>> ELSE combined_output)

\* The content of the assistant message that folds a result.
FoldedOutput(result) ==
    LET combined_output ==
            (IF Strip(result.stdout) # <<>> THEN <<RStrip(result.stdout)>> ELSE <<>>)
         \o (IF Strip(result.stderr) # <<>>
             THEN <<StderrTag \o RStrip(result.stderr)>> ELSE <<>>)
         \o (IF result.returncode # 0 THEN <<ExitStatus(result.returncode)>> ELSE <<>>)
    IN Join(<<NL, NL>>,
            IF combined_output = <<>> THEN <<NoOutputMarker>> ELSE combined_output)

\* A fold that writes the user message over the last message.
FoldedOverLast(msgs, command, result) ==
    Append([msgs EXCEPT ![Len(msgs)] = Msg("user", <<"!">> \o command)],
           Msg("assistant", FoldedOutput(result)))

\* history.append of the user and the assistant message.
Folded(msgs, command, result) ==
    Append(Append(msgs, Msg("user", <<"!">> \o command)),
           Msg("assistant", FoldedOutput(result)))

\* run_shell_and_print(assistant, command, history=assistant.messages): an
\* empty command is reported and nothing is run; otherwise the command is
\* spawned, and its result printed and folded.
RunShellAndPrint(command) ==
    IF command = <<>>
    THEN /\ notice' = "No command provided."
         /\ UNCHANGED <<messages, spawned, last_spawn>>
    ELSE /\ Turns < MaxTurns
         /\ \E result \in ShellResults :
                messages' = Folded(messages, command, result)
         /\ spawned' = spawned + 1
         /\ last_spawn' = Some(command)
         /\ notice' = "shell result"

(***************************************************************************)
(* The model call: client.chat either returns a message with some content  *)
(* or raises (the backend is unreachable, refuses the credentials, or      *)
(* returns no message).  None stands for the call raising.                 *)
(***************************************************************************)
ChatOutcomes == {None} \cup {Some(r) : r \in Replies}

\* send_prompt(prompt, code, command_mode): what it does to the assistant, whether
\* client.chat returns or raises.
SendPrompt(prompt, code_arg, command_mode, outcome) ==
    LET asked == Asked(messages, system_prompt, crumbs, prompt, code_arg, command_mode)
    IN /\ Turns < MaxTurns
       /\ system_prompt' = RefreshedPrompt(system_prompt, crumbs)
       /\ chats' = chats + 1
       /\ messages' = IF outcome = None THEN asked ELSE Answered(asked, outcome[1])

(***************************************************************************)
(* InlineInterface                                                         *)
(***************************************************************************)
\* _process_text: the branch a line is dispatched to.
Route(line) ==
    LET stripped == Strip(line)
        lowered == Lower(stripped)
    IN IF stripped = <<>> THEN "empty"
       ELSE IF lowered \in {T_colon_run, T_run} THEN "run"
       ELSE IF lowered \in {T_clear, T_reset} THEN "clear"
       ELSE IF lowered = T_model THEN "model"
       ELSE IF lowered = T_local THEN "local"
       ELSE IF lowered = T_cloud THEN "cloud"
       ELSE IF lowered = T_help THEN "help"
       ELSE IF lowered = T_crumbs THEN "crumbs"
       ELSE IF lowered = T_stop_poll THEN "stop-poll"
       ELSE IF StartsWith(stripped, T_poll) THEN "poll"
       ELSE IF StartsWith(stripped, T_bang) THEN "shell"
       ELSE "prompt"

\* The branch of each line of InputTexts, computed once.
Routed == [line \in InputTexts |-> Route(line)]

\* A _run_last_command that keeps last_command for a further run.
RunLastCommandKeeping ==
    /\ IF ~Truthy(last_command)
       THEN /\ notice' = "No suggested command available yet."
            /\ UNCHANGED <<messages, spawned, last_spawn, ui>>
       ELSE /\ RunShellAndPrint(last_command[1])
            /\ last_shell_output' = TRUE
            /\ pending_command' = None
            /\ UNCHANGED last_command
    /\ UNCHANGED <<phase, system_prompt, crumbs, model, listed, unit, tasks, code, code_sent,
                   result_command, chats>>

\* A _run_last_command that marks output available before it looks for a
\* command.
RunLastCommandMarking ==
    /\ IF ~Truthy(last_command)
       THEN /\ notice' = "No suggested command available yet."
            /\ last_shell_output' = TRUE
            /\ UNCHANGED <<messages, spawned, last_spawn, last_command, pending_command>>
       ELSE /\ RunShellAndPrint(last_command[1])
            /\ last_shell_output' = TRUE
            /\ pending_command' = None
            /\ last_command' = None
    /\ UNCHANGED <<phase, system_prompt, crumbs, model, listed, unit, tasks, code, code_sent,
                   result_command, chats>>

\* A _run_last_command that leaves the suggestion in place after running it.
RunLastCommandRepeatable ==
    /\ IF ~Truthy(last_command)
       THEN /\ notice' = "No suggested command available yet."
            /\ UNCHANGED <<messages, spawned, last_spawn, ui>>
       ELSE /\ RunShellAndPrint(last_command[1])
            /\ last_shell_output' = TRUE
            /\ UNCHANGED <<last_command, pending_command>>
    /\ UNCHANGED <<phase, system_prompt, crumbs, model, listed, unit, tasks, code,
                   code_sent, result_command, chats>>

\* _run_last_command
RunLastCommand ==
    /\ IF ~Truthy(last_command)
       THEN /\ notice' = "No suggested command available yet."
            /\ UNCHANGED <<messages, spawned, last_spawn, ui>>
       ELSE /\ RunShellAndPrint(last_command[1])
            /\ last_shell_output' = TRUE
            /\ pending_command' = None
            /\ last_command' = None
    /\ UNCHANGED <<phase, system_prompt, crumbs, model, listed, unit, tasks, code, code_sent,
                   result_command, chats>>

\* An _explain_last_command that consumes the flag before the model call.
ExplainClearingFirst ==
    IF Len(messages) < 2 \/ messages[Len(messages)].role # "assistant"
    THEN /\ notice' = "No shell output to explain yet."
         /\ UNCHANGED <<phase, messages, system_prompt, chats, ui>>
    ELSE \E outcome \in ChatOutcomes :
            /\ SendPrompt(ExplainPrefix \o messages[Len(messages)].content, None, TRUE, outcome)
            /\ last_shell_output' = FALSE
            /\ UNCHANGED <<last_command, pending_command>>
            /\ IF outcome = None
               THEN /\ phase' = "crashed"
                    /\ notice' = "exception"
               ELSE /\ notice' = "reply"
                    /\ UNCHANGED phase

\* _explain_last_command
ExplainLastCommand ==
    IF Len(messages) < 2 \/ messages[Len(messages)].role # "assistant"
    THEN /\ notice' = "No shell output to explain yet."
         /\ UNCHANGED <<phase, messages, system_prompt, chats, ui>>
    ELSE \E outcome \in ChatOutcomes :
            /\ SendPrompt(ExplainPrefix \o messages[Len(messages)].content, None, TRUE, outcome)
            /\ IF outcome = None
               THEN /\ phase' = "crashed"
                    /\ notice' = "exception"
                    /\ UNCHANGED ui
               ELSE /\ last_shell_output' = FALSE
                    /\ notice' = "reply"
                    /\ UNCHANGED <<phase, last_command, pending_command>>

\* _process_text, the branch of an empty line.
ProcessEmpty ==
    IF Truthy(pending_command)
    THEN RunLastCommand
    ELSE /\ IF last_shell_output
            THEN ExplainLastCommand
            ELSE /\ notice' = "Nothing to run yet."
                 /\ UNCHANGED <<phase, messages, system_prompt, chats, ui>>
         /\ UNCHANGED <<crumbs, model, listed, unit, tasks, code, code_sent, result_command,
                        spawned, last_spawn>>

\* A shell branch that leaves the pending command in place.
ShellDoneKeepingPending ==
    /\ last_shell_output' = TRUE
    /\ UNCHANGED <<pending_command, last_command>>

\* _process_text, the shell branch: the assignments after the run.
ShellDone ==
    /\ last_shell_output' = TRUE
    /\ pending_command' = None
    /\ UNCHANGED last_command

\* _process_text, the branch of a line that starts with "!".
ProcessShell(stripped) ==
    /\ RunShellAndPrint(Strip(Tail(stripped)))
    /\ ShellDone
    /\ UNCHANGED <<phase, system_prompt, crumbs, model, listed, unit, tasks, code, code_sent,
                   result_command, chats>>

\* A prompt branch that records the command as pending only.
SuggestedPendingOnly(command) ==
    /\ pending_command' = command
    /\ UNCHANGED <<last_command, last_shell_output>>

\* A prompt branch that marks output available after every reply.
SuggestedMarking(command) ==
    /\ last_command' = command
    /\ pending_command' = command
    /\ last_shell_output' = TRUE

\* _process_text, the prompt branch: the assignments after the reply.
Suggested(command) ==
    /\ last_command' = command
    /\ pending_command' = command
    /\ UNCHANGED last_shell_output

\* _process_text, the last branch: the line is a prompt for the model.
ProcessPrompt(stripped) ==
    \E outcome \in ChatOutcomes :
        /\ SendPrompt(stripped, IF ~code_sent THEN code ELSE None, TRUE, outcome)
        /\ IF outcome = None
           THEN /\ phase' = "crashed"
                /\ notice' = "exception"
                /\ UNCHANGED <<code_sent, ui>>
           ELSE /\ code_sent' = (IF Truthy(code) /\ ~code_sent THEN TRUE ELSE code_sent)
                /\ Suggested(ExtractCommand(outcome[1]))
                /\ notice' = IF ExtractCommand(outcome[1]) # None
                             THEN "Suggested command:" ELSE "reply"
                /\ UNCHANGED phase
        /\ UNCHANGED <<crumbs, model, listed, unit, tasks, code, result_command, spawned, last_spawn>>

\* A _clear_history that leaves the command fields in place.
ClearHistoryKeepingFields ==
    /\ messages' = Cleared(messages)
    /\ notice' = "Conversation history cleared."
    /\ UNCHANGED <<phase, system_prompt, crumbs, model, listed, unit, tasks, code, code_sent, result_command,
                   chats, spawned, last_spawn, ui>>

\* A _clear_history that forgets the last command but not the pending one.
ClearHistoryKeepingPending ==
    /\ messages' = Cleared(messages)
    /\ last_command' = None
    /\ last_shell_output' = FALSE
    /\ notice' = "Conversation history cleared."
    /\ UNCHANGED <<phase, system_prompt, crumbs, model, listed, unit, tasks, code,
                   code_sent, result_command, chats, spawned, last_spawn,
                   pending_command>>

\* _clear_history
ClearHistory ==
    /\ messages' = Cleared(messages)
    /\ last_command' = None
    /\ pending_command' = None
    /\ last_shell_output' = FALSE
    /\ notice' = "Conversation history cleared."
    /\ UNCHANGED <<phase, system_prompt, crumbs, model, listed, unit, tasks, code, code_sent, result_command,
                   chats, spawned, last_spawn>>

\* _copy_last_command: the clipboard is outside the model.
CopyLastCommand ==
    /\ notice' = IF ~Truthy(last_command)
                 THEN "No suggested command available to copy."
                 ELSE "Copied to clipboard"
    /\ UNCHANGED <<phase, messages, system_prompt, crumbs, model, listed, unit, tasks, code, code_sent, ui,
                   result_command, chats, spawned, last_spawn>>

\* A _show_help and the like that drop the pending command.
ShowInfoDroppingPending(route) ==
    /\ notice' = "Ducky CLI Help"
    /\ pending_command' = None
    /\ UNCHANGED <<phase, messages, system_prompt, crumbs, model, listed, unit, tasks, code, code_sent,
                   last_command, last_shell_output, result_command, chats, spawned,
                   last_spawn>>

\* _show_help, _show_crumbs, _stop_polling (no polling session is running
\* while the loop reads a line): they print and change nothing.
ShowInfo(route) ==
    /\ notice' = (CASE route = "help" -> "Ducky CLI Help"
                    [] route = "crumbs" ->
                         IF crumbs = <<>> THEN "No crumbs available." ELSE "Available Crumbs"
                    [] OTHER -> "No polling session is currently running.")
    /\ UNCHANGED <<phase, messages, system_prompt, crumbs, model, listed, unit, tasks, code, code_sent, ui,
                   result_command, chats, spawned, last_spawn>>

\* str.isdigit and int() for the answers of the model menu.
Digits == <<"0", "1", "2", "3", "4", "5", "6", "7", "8", "9">>

IsDigit(s) == s # <<>> /\ \A i \in 1..Len(s) : \E d \in 1..10 : Digits[d] = s[i]

RECURSIVE ToInt(_)
ToInt(s) ==
    IF s = <<>> THEN 0
    ELSE 10 * ToInt(SubSeq(s, 1, Len(s) - 1))
            + (CHOOSE d \in 0..9 : Digits[d + 1] = s[Len(s)])

LocalHost == "http://localhost:11434"
CloudHost == "https://ollama.com"
Esc == <<"e", "s", "c">>

\* _select_model without a host: the menu of the model type.  The host is
\* "" when the selection ends there.
TypeMenu(answer) ==
    IF answer = EOF THEN [host |-> "", notice |-> "Invalid input."]
    ELSE LET choice == Strip(answer) IN
         IF Lower(choice) = Esc
         THEN [host |-> "", notice |-> "Model selection cancelled."]
         ELSE IF choice = <<"1">> THEN [host |-> LocalHost, notice |-> ""]
         ELSE IF choice = <<"2">> THEN [host |-> CloudHost, notice |-> ""]
         ELSE [host |-> "", notice |-> "Invalid choice. Please select 1 or 2."]

\* _select_model: the menu of the models, answered by a number or a name.
ModelMenu(models, answer) ==
    IF answer = EOF THEN [selected |-> None, notice |-> "Invalid input."]
    ELSE LET choice == Strip(answer) IN
         IF Lower(choice) = Esc
         THEN [selected |-> None, notice |-> "Model selection cancelled."]
         ELSE IF IsDigit(choice)
         THEN LET index == ToInt(choice) - 1 IN
              IF 0 <= index /\ index < Len(models)
              THEN [selected |-> Some(models[index + 1]), notice |-> "Switched to model"]
              ELSE [selected |-> None, notice |-> "Invalid model number."]
         ELSE IF \E i \in 1..Len(models) : models[i] = choice
         THEN [selected |-> Some(choice), notice |-> "Switched to model"]
         ELSE [selected |-> None, notice |-> "Invalid model name."]

\* _select_model(host), with list_models in its middle and switch_model at
\* its end.
SelectModel(host) ==
    /\ \E type_answer \in MenuAnswers :
          LET chosen == IF host = "" THEN TypeMenu(type_answer)
                        ELSE [host |-> host, notice |-> ""]
          IN IF chosen.host = ""
             THEN /\ notice' = chosen.notice
                  /\ UNCHANGED <<model, listed>>
             ELSE /\ Turns < MaxTurns
                  /\ listed' = listed + 1
                  /\ \E models \in ModelLists, model_answer \in MenuAnswers \cup {EOF} :
                        LET picked == ModelMenu(models, model_answer) IN
                        IF models = <<>>
                        THEN /\ notice' = (IF chosen.host = LocalHost
                                           THEN "No local models available. Is Ollama running?"
                                           ELSE "No models available.")
                             /\ UNCHANGED model
                        ELSE /\ notice' = picked.notice
                             /\ model' = IF picked.selected = None THEN model
                                         ELSE picked.selected[1]
    /\ UNCHANGED <<phase, messages, system_prompt, crumbs, code, code_sent, ui,
                   result_command, chats, spawned, last_spawn, unit, tasks>>

(***************************************************************************)
(* InlineInterface.run: one action per kind of line read.                  *)
(***************************************************************************)
EnterEmpty ==
    /\ phase = "prompt"
    /\ \E line \in InputTexts :
        /\ Routed[line] = "empty"
        /\ text' = line
        /\ ProcessEmpty
    /\ UNCHANGED poll

EnterRun ==
    /\ phase = "prompt"
    /\ \E line \in InputTexts :
        /\ Routed[line] = "run"
        /\ text' = line
        /\ RunLastCommand
    /\ UNCHANGED poll

CtrlR ==
    /\ phase = "prompt"
    /\ text' = RUN_LAST
    /\ RunLastCommand
    /\ UNCHANGED poll

CtrlS ==
    /\ phase = "prompt"
    /\ text' = COPY_LAST
    /\ CopyLastCommand
    /\ UNCHANGED poll

EnterClear ==
    /\ phase = "prompt"
    /\ \E line \in InputTexts :
        /\ Routed[line] = "clear"
        /\ text' = line
        /\ ClearHistory
    /\ UNCHANGED poll

EnterInfo ==
    /\ phase = "prompt"
    /\ \E line \in InputTexts :
        /\ Routed[line] \in {"help", "crumbs", "stop-poll"}
        /\ text' = line
        /\ ShowInfo(Routed[line])
    /\ UNCHANGED poll

EnterModel ==
    /\ phase = "prompt"
    /\ \E line \in InputTexts :
        /\ Routed[line] \in {"model", "local", "cloud"}
        /\ text' = line
        /\ SelectModel(CASE Routed[line] = "local" -> LocalHost
                         [] Routed[line] = "cloud" -> CloudHost
                         [] OTHER -> "")
    /\ UNCHANGED poll

EnterShell ==
    /\ phase = "prompt"
    /\ \E line \in InputTexts :
        /\ Routed[line] = "shell"
        /\ text' = line
        /\ ProcessShell(Strip(line))
    /\ UNCHANGED poll

EnterPrompt ==
    /\ phase = "prompt"
    /\ \E line \in InputTexts :
        /\ Routed[line] = "prompt"
        /\ text' = line
        /\ ProcessPrompt(Strip(line))
    /\ UNCHANGED poll

\* Ctrl+D: prompt_async raises EOFError and run returns.
CtrlD ==
    /\ phase = "prompt"
    /\ phase' = "exited"
    /\ text' = EOF
    /\ notice' = "Exiting."
    /\ UNCHANGED <<messages, system_prompt, crumbs, model, listed, unit, tasks, code, code_sent, ui,
                   result_command, chats, spawned, last_spawn>>
    /\ UNCHANGED poll

(***************************************************************************)
(* ducky(): piped input, a single prompt argument, or the interactive loop *)
(***************************************************************************)
\* What stdin may hold when it is not a terminal (stripped, not empty).
PipedTexts == { <<"h", "i">> }

\* A confirm that takes an empty answer or the end of input for a yes.
ConfirmEmptyIsYes(answer, default) ==
    IF answer = EOF THEN TRUE
    ELSE Lower(Strip(answer)) \in {<<>>, <<"y">>, <<"y", "e", "s">>}

\* confirm(prompt, default)
Confirm(answer, default) ==
    IF answer = EOF THEN default
    ELSE LET choice == Lower(Strip(answer))
         IN IF choice = <<>> THEN default
            ELSE choice \in {<<"y">>, <<"y", "e", "s">>}

\* The piped prompt is sent; a command it yields waits for the confirmation
\* when stdout is a terminal.
PipedPrompt ==
    /\ phase = "main"
    /\ \E piped_prompt \in PipedTexts, stdout_isatty \in BOOLEAN,
          outcome \in ChatOutcomes :
        /\ text' = piped_prompt
        /\ SendPrompt(piped_prompt, code, TRUE, outcome)
        /\ IF outcome = None
           THEN /\ phase' = "crashed"
                /\ notice' = "exception"
                /\ UNCHANGED result_command
           ELSE /\ result_command' = ExtractCommand(outcome[1])
                /\ notice' = "reply"
                /\ phase' = IF Truthy(ExtractCommand(outcome[1])) /\ stdout_isatty
                            THEN "confirm" ELSE "exited"
    /\ UNCHANGED <<crumbs, model, listed, unit, tasks, code, code_sent, ui, spawned, last_spawn>>
    /\ UNCHANGED poll

\* The answer to "Run suggested command?" is read, and the command run on yes.
ConfirmRun ==
    /\ phase = "confirm"
    /\ \E answer \in Answers \cup {EOF} :
        /\ text' = answer
        /\ IF Confirm(answer, FALSE)
           THEN RunShellAndPrint(result_command[1])
           ELSE /\ notice' = "declined"
                /\ UNCHANGED <<messages, spawned, last_spawn>>
    /\ phase' = "exited"
    /\ UNCHANGED <<system_prompt, crumbs, model, listed, unit, tasks, code, code_sent, ui,
                   result_command, chats>>
    /\ UNCHANGED poll

\* The single_prompt argument: the prompt is sent and the command copied.
SinglePrompt ==
    /\ phase = "main"
    /\ \E prompt \in PipedTexts, outcome \in ChatOutcomes :
        /\ text' = prompt
        /\ SendPrompt(prompt, code, TRUE, outcome)
        /\ phase' = IF outcome = None THEN "crashed" ELSE "exited"
        /\ notice' = IF outcome = None THEN "exception" ELSE "reply"
    /\ UNCHANGED <<crumbs, model, listed, unit, tasks, code, code_sent, ui, result_command,
                   spawned, last_spawn>>
    /\ UNCHANGED poll

\* interactive_session: InlineInterface.run starts reading lines.
StartInteractive ==
    /\ phase = "main"
    /\ phase' = "prompt"
    /\ notice' = "Enter submits"
    /\ UNCHANGED <<messages, system_prompt, crumbs, model, listed, unit, tasks, code, code_sent, ui,
                   result_command, text, chats, spawned, last_spawn>>
    /\ UNCHANGED poll

(***************************************************************************)
(* Polling: /poll <crumb> at the prompt, or the --poll argument.  The      *)
(* session runs inside the handler, so no line is read while it lasts.     *)
(* The crumbs of CrumbSets have no poll_type, so the session is            *)
(* _interval_polling; the lines of InputTexts carry no -i or -p option.    *)
(***************************************************************************)
\* The crumb of that name in the dictionary, or None.
CrumbNamed(name) ==
    IF \E i \in 1..Len(crumbs) : crumbs[i].name = name
    THEN Some(crumbs[CHOOSE i \in 1..Len(crumbs) : crumbs[i].name = name])
    ELSE None

\* polling_session: the prompt of the session.
PollPrompt(crumb) ==
    IF Truthy(crumb.poll_prompt) THEN crumb.poll_prompt[1] ELSE DefaultPollPrompt

\* _interval_polling: the prompt sent for a script result.
FullPrompt(crumb, result) ==
    LET script_output ==
            (IF Strip(result.stdout) # <<>> THEN result.stdout ELSE NoScriptOutput)
         \o (IF Strip(result.stderr) # <<>>
             THEN <<NL>> \o StderrTag \o result.stderr ELSE <<>>)
    IN PollPrompt(crumb) \o ScriptOutputHeading \o script_output

\* polling_session is entered for a crumb: the shutdown event is new and
\* the SIGINT handler installed.
PollingStarts(crumb) ==
    /\ phase' = "polling"
    /\ poll_pc' = "top"
    /\ shutdown' = FALSE
    /\ poll_crumb' = Some(crumb)
    /\ poll_result' = None
    /\ notice' = "Starting polling session"

\* _handle_poll_command
HandlePollCommand(command) ==
    LET parts == Words(command) IN
    /\ IF running_polling
       THEN /\ notice' = "A polling session is already running."
            /\ UNCHANGED <<phase, poll>>
       ELSE IF Len(parts) < 2
       THEN /\ notice' = "Usage: /poll <crumb-name>"
            /\ UNCHANGED <<phase, poll>>
       ELSE IF CrumbNamed(parts[2]) = None
       THEN /\ notice' = "Crumb not found."
            /\ UNCHANGED <<phase, poll>>
       ELSE /\ running_polling' = TRUE
            /\ PollingStarts(CrumbNamed(parts[2])[1])
    /\ UNCHANGED <<messages, system_prompt, crumbs, model, listed, unit, tasks, code, code_sent, ui,
                   result_command, chats, spawned, last_spawn>>

EnterPoll ==
    /\ phase = "prompt"
    /\ \E line \in InputTexts :
        /\ Routed[line] = "poll"
        /\ text' = line
        /\ HandlePollCommand(Strip(line))

\* ducky(): the --poll argument.
PollArgument ==
    /\ phase = "main"
    /\ \E crumb_name \in {<<"c">>} :
        IF CrumbNamed(crumb_name) = None
        THEN /\ phase' = "exited"
             /\ notice' = "Crumb not found."
             /\ UNCHANGED poll
        ELSE /\ PollingStarts(CrumbNamed(crumb_name)[1])
             /\ UNCHANGED running_polling
    /\ UNCHANGED <<messages, system_prompt, crumbs, model, listed, unit, tasks, code, code_sent, ui,
                   result_command, text, chats, spawned, last_spawn>>

\* The session is left: the SIGINT handler is removed, and the finally of
\* _handle_poll_command resets running_polling.
PollingEnds(to) ==
    /\ phase' = to
    /\ poll_pc' = "off"
    /\ running_polling' = FALSE
    /\ UNCHANGED <<shutdown, poll_crumb, poll_result>>

\* _interval_polling: the test of the while loop.
PollLoopTop ==
    /\ phase = "polling" /\ poll_pc = "top"
    /\ IF shutdown
       THEN /\ PollingEnds(IF running_polling THEN "prompt" ELSE "exited")
            /\ notice' = "Polling stopped."
       ELSE /\ poll_pc' = "script"
            /\ notice' = "Polling"
            /\ UNCHANGED <<phase, running_polling, shutdown, poll_crumb, poll_result>>
    /\ UNCHANGED <<messages, system_prompt, crumbs, model, listed, unit, tasks, code, code_sent, ui,
                   result_command, text, chats, spawned, last_spawn>>

\* _interval_polling: the crumb's script is run; its result is not folded.
PollScript ==
    /\ phase = "polling" /\ poll_pc = "script"
    /\ Turns < MaxTurns
    /\ \E result \in ShellResults : poll_result' = Some(result)
    /\ spawned' = spawned + 1
    /\ last_spawn' = Some(poll_crumb[1].path)
    /\ poll_pc' = "chat"
    /\ notice' = "Script output"
    /\ UNCHANGED <<phase, messages, system_prompt, crumbs, model, listed, unit, tasks, code, code_sent, ui,
                   result_command, text, chats, running_polling, shutdown, poll_crumb>>

\* _interval_polling: the output is sent to the model, not in command mode.
PollAnalyze ==
    /\ phase = "polling" /\ poll_pc = "chat"
    /\ \E outcome \in ChatOutcomes :
        /\ SendPrompt(FullPrompt(poll_crumb[1], poll_result[1]), None, FALSE, outcome)
        /\ IF outcome = None
           THEN /\ PollingEnds("crashed")
                /\ notice' = "exception"
           ELSE /\ poll_pc' = "sleep"
                /\ notice' = "AI:"
                /\ UNCHANGED <<phase, running_polling, shutdown, poll_crumb, poll_result>>
    /\ UNCHANGED <<crumbs, model, listed, unit, tasks, code, code_sent, ui, result_command,
                   text, spawned, last_spawn>>

\* _interval_polling: asyncio.sleep(interval) returns.
PollSleep ==
    /\ phase = "polling" /\ poll_pc = "sleep"
    /\ poll_pc' = "top"
    /\ UNCHANGED <<phase, messages, system_prompt, crumbs, model, listed, unit, tasks, code, code_sent, ui,
                   result_command, text, notice, chats, spawned, last_spawn,
                   running_polling, shutdown, poll_crumb, poll_result>>

\* signal_handler: Ctrl+C during the session sets the shutdown event.
Sigint ==
    /\ phase = "polling"
    /\ shutdown' = TRUE
    /\ notice' = "Stopping polling..."
    /\ UNCHANGED <<phase, messages, system_prompt, crumbs, model, listed, unit, tasks, code, code_sent, ui,
                   result_command, text, chats, spawned, last_spawn,
                   running_polling, poll_pc, poll_crumb, poll_result>>

(***************************************************************************)
(* The specification.  The transcript file is writable and the shell can   *)
(* be spawned; the model call may raise in any turn.                       *)
(***************************************************************************)
\* No function is applied on its own while the program runs.
NoCall == [fn |-> "", arg |-> <<>>]

InitProgram ==
    /\ phase = "main"
    /\ messages = <<Msg("system", BasePrompt)>>
    /\ system_prompt = BasePrompt
    /\ crumbs \in CrumbSets
    /\ model = DefaultModel
    /\ listed = 0
    /\ code \in Codes
    /\ code_sent = FALSE
    /\ last_command = None
    /\ pending_command = None
    /\ last_shell_output = FALSE
    /\ result_command = None
    /\ text = <<>>
    /\ notice = ""
    /\ chats = 0
    /\ spawned = 0
    /\ last_spawn = None
    /\ running_polling = FALSE
    /\ poll_pc = "off"
    /\ shutdown = FALSE
    /\ poll_crumb = None
    /\ poll_result = None

\* No task of a polling session exists and no call is awaited.
TasksIdle ==
    /\ main_pc = "off"
    /\ in_flight = 0
    /\ child = "none"
    /\ child_lines = [s \in Streams |-> 0]
    /\ reader = [s \in Streams |-> "off"]
    /\ accumulated_output = <<>>
    /\ last_analyzed_length = 0
    /\ current_length = 0
    /\ submitted = <<>>
    /\ handler = FALSE
    /\ typed = <<>>

\* The file CrumbManager keeps does not exist.
Missing == "missing"
\* The mapping without entries.
NoEntries == [name \in {} |-> <<>>]

Init ==
    /\ InitProgram
    /\ call = NoCall
    /\ returned = None
    /\ TasksIdle
    /\ log_ok = TRUE
    /\ store = [kind |-> Missing, entries |-> NoEntries]

Next ==
    \/ PipedPrompt
    \/ ConfirmRun
    \/ SinglePrompt
    \/ StartInteractive
    \/ EnterEmpty
    \/ EnterRun
    \/ CtrlR
    \/ CtrlS
    \/ EnterClear
    \/ EnterInfo
    \/ EnterModel
    \/ EnterShell
    \/ EnterPrompt
    \/ CtrlD
    \/ EnterPoll
    \/ PollArgument
    \/ PollLoopTop
    \/ PollScript
    \/ PollAnalyze
    \/ PollSleep
    \/ Sigint

Spec == Init /\ [][Next]_vars

(***************************************************************************)
(* The functions of RubberDuck applied on their own: run_shell_command on  *)
(* a command, the fold of run_shell_and_print on a result, and             *)
(* _extract_command on a reply.                                            *)
(***************************************************************************)
\* The number of lines of a reply.
MaxLines == 4

\* Lines a reply may be made of: an empty line, a line of a space, a bare
\* fence, a fence with a language, a command, a padded line with a
\* semicolon in it, and a line with nothing before its semicolon.
ReplyLines ==
    { <<>>, <<" ">>, Fence, Fence \o <<"s", "h">>, <<"l", "s">>,
      <<" ", "a", ";", "b", " ">>, <<";", "x">> }

\* The replies of one to MaxLines such lines.
Contents ==
    { Join(<<NL>>, lines) :
        lines \in UNION { [1..n -> ReplyLines] : n \in 1..MaxLines } }

\* What a subprocess may produce; a negative return code is a signal.
AllShellResults ==
    [stdout : { <<>>, <<" ", NL>>, <<"h", "i", NL>> },
     stderr : { <<>>, <<"e", NL>> },
     returncode : { 0, 1, -9 }]

\* run_shell_command hands the command to the shell whatever it is: the
\* shell given an empty command runs nothing, prints nothing and exits 0.
SpawnResults(command) ==
    IF command = <<>>
    THEN { [stdout |-> <<>>, stderr |-> <<>>, returncode |-> 0] }
    ELSE AllShellResults

\* CrumbManager: the names and commands of crumbs, what the crumbs file may
\* hold, and the name of the exception a call ends with.  An entry is
\* modelled by its command.
CrumbNames == { <<"a">>, <<"b">> }
CrumbCommands == { <<"l", "s">>, <<"p", "w", "d">> }
Mappings ==
    UNION { [names -> CrumbCommands] : names \in SUBSET CrumbNames }
Stores ==
         [kind : {Missing, "truncated", "array", "undecodable"}, entries : {NoEntries}]
    \cup [kind : {"object"}, entries : Mappings]

\* The calls that write the transcript through the logger.
LoggedCalls == {"run_single_prompt", "run_shell_and_print with logger"}
\* The calls of CrumbManager.
CrumbCalls == {"save_crumb", "delete_crumb"}

Calls ==
         [fn : {"run_shell_command"}, arg : { <<>>, <<"l", "s">> }]
    \cup [fn : {"run_shell_and_print"}, arg : AllShellResults]
    \cup [fn : {"_extract_command"}, arg : Contents]
    \cup [fn : {"run_single_prompt"}, arg : { <<"g", "o">>, <<" ">> }]
    \cup [fn : {"run_shell_and_print with logger"}, arg : { <<"l", "s">> }]
    \cup [fn : {"save_crumb"}, arg : [name : CrumbNames, command : CrumbCommands]]
    \cup [fn : {"delete_crumb"}, arg : CrumbNames]

\* The state of the interface, which these calls leave alone.
interface ==
    <<phase, messages, system_prompt, crumbs, model, listed, code, code_sent, ui,
      result_command, text, notice, chats, poll, tasks>>

\* run_shell_command(command)
CallRunShellCommand ==
    /\ call.fn = "run_shell_command" /\ returned = None
    /\ \E result \in SpawnResults(call.arg) : returned' = Some(result)
    /\ spawned' = spawned + 1
    /\ last_spawn' = Some(call.arg)
    /\ UNCHANGED <<interface, call>>

\* run_shell_and_print: the content folded for a result.
CallFold ==
    /\ call.fn = "run_shell_and_print" /\ returned = None
    /\ returned' = Some(FoldedOutput(call.arg))
    /\ UNCHANGED <<interface, call, spawned, last_spawn>>

\* _extract_command(content)
CallExtractCommand ==
    /\ call.fn = "_extract_command" /\ returned = None
    /\ returned' = Some(ExtractCommand(call.arg))
    /\ UNCHANGED <<interface, call, spawned, last_spawn>>

\* ConversationLogger._append: it opens the file and writes, and nothing
\* on its way catches the OSError of a file that cannot be written.
Appended == IF log_ok THEN "written" ELSE "OSError"

\* run_single_prompt(rubber_ducky, prompt, logger=logger): log_user (which
\* skips a blank prompt), send_prompt, log_assistant.
CallRunSinglePrompt ==
    /\ call.fn = "run_single_prompt" /\ returned = None
    /\ IF Strip(call.arg) # <<>> /\ Appended = "OSError"
       THEN /\ returned' = Some("OSError")
            /\ UNCHANGED <<messages, system_prompt, chats>>
       ELSE \E outcome \in ChatOutcomes :
              /\ SendPrompt(call.arg, None, TRUE, outcome)
              /\ returned' = IF outcome = None THEN Some("ResponseError")
                             ELSE IF Appended = "OSError" THEN Some("OSError")
                             ELSE Some("AssistantResult")
    /\ UNCHANGED <<phase, crumbs, model, listed, code, code_sent, ui, result_command,
                   text, notice, poll, tasks, call, spawned, last_spawn>>

\* run_shell_and_print(assistant, command, logger=logger, history=messages):
\* the command is run, log_shell is called, then the result is folded.
CallRunShellAndPrint ==
    /\ call.fn = "run_shell_and_print with logger" /\ returned = None
    /\ spawned' = spawned + 1
    /\ last_spawn' = Some(call.arg)
    /\ IF Appended = "OSError"
       THEN /\ returned' = Some("OSError")
            /\ UNCHANGED messages
       ELSE /\ \E result \in ShellResults :
                  messages' = Folded(messages, call.arg, result)
            /\ returned' = Some("None")
    /\ UNCHANGED <<phase, system_prompt, crumbs, model, listed, code, code_sent, ui,
                   result_command, text, notice, chats, poll, tasks, call>>

\* CrumbManager.load_crumbs: {} for a file that does not exist or that
\* json.load rejects with JSONDecodeError; what json.load returns otherwise,
\* be it an object or not; UnicodeDecodeError, which no except clause
\* names, for a file that is not UTF-8.
LoadCrumbs(st) ==
    IF st.kind \in {Missing, "truncated"} THEN [kind |-> "dict", entries |-> NoEntries]
    ELSE IF st.kind = "object" THEN [kind |-> "dict", entries |-> st.entries]
    ELSE IF st.kind = "array" THEN [kind |-> "list", entries |-> NoEntries]
    ELSE [kind |-> "UnicodeDecodeError", entries |-> NoEntries]

\* CrumbManager.save_crumbs: the file holds the object.
SavedCrumbs(entries) == [kind |-> "object", entries |-> entries]

\* The mapping with the entry of name set to command.
WithEntry(entries, name, command) ==
    [n \in DOMAIN entries \cup {name} |-> IF n = name THEN command ELSE entries[n]]

\* The mapping without the entry of name.
WithoutEntry(entries, name) == [n \in DOMAIN entries \ {name} |-> entries[n]]

\* CrumbManager.save_crumb(name, prompt, response, command)
CallSaveCrumb ==
    /\ call.fn = "save_crumb" /\ returned = None
    /\ LET loaded == LoadCrumbs(store) IN
         IF loaded.kind = "dict"
         THEN /\ store' = SavedCrumbs(WithEntry(loaded.entries, call.arg.name,
                                                call.arg.command))
              /\ returned' = Some("None")
         ELSE /\ returned' = Some(IF loaded.kind = "list" THEN "TypeError"
                                  ELSE loaded.kind)
              /\ UNCHANGED store
    /\ UNCHANGED <<phase, messages, system_prompt, crumbs, model, listed, code,
                   code_sent, ui, result_command, text, notice, chats, poll, session,
                   call, spawned, last_spawn>>

\* CrumbManager.delete_crumb(name)
CallDeleteCrumb ==
    /\ call.fn = "delete_crumb" /\ returned = None
    /\ LET loaded == LoadCrumbs(store) IN
         IF loaded.kind = "UnicodeDecodeError"
         THEN /\ returned' = Some(loaded.kind)
              /\ UNCHANGED store
         ELSE IF call.arg \in DOMAIN loaded.entries
         THEN /\ store' = SavedCrumbs(WithoutEntry(loaded.entries, call.arg))
              /\ returned' = Some("True")
         ELSE /\ returned' = Some("False")
              /\ UNCHANGED store
    /\ UNCHANGED <<phase, messages, system_prompt, crumbs, model, listed, code,
                   code_sent, ui, result_command, text, notice, chats, poll, session,
                   call, spawned, last_spawn>>

UnitInit ==
    /\ InitProgram
    /\ crumbs = <<>>
    /\ code = None
    /\ call \in Calls
    /\ returned = None
    /\ TasksIdle
    /\ log_ok \in (IF call.fn \in LoggedCalls THEN BOOLEAN ELSE {TRUE})
    /\ store \in (IF call.fn \in CrumbCalls THEN Stores
                   ELSE {[kind |-> Missing, entries |-> NoEntries]})

UnitNext ==
    \/ CallRunShellCommand
    \/ CallFold
    \/ CallExtractCommand
    \/ CallRunSinglePrompt
    \/ CallRunShellAndPrint
    \/ CallSaveCrumb
    \/ CallDeleteCrumb

UnitSpec == UnitInit /\ [][UnitNext]_vars

(***************************************************************************)
(* The polling session task by task.  Every await of the session is a      *)
(* step of its own: the shell command of _interval_polling and the model   *)
(* call of send_prompt begin in one step and end in another, and the two   *)
(* read_stream tasks of _continuous_polling run beside the analysis loop.  *)
(* The task that runs the session may be cancelled while it awaits.        *)
(***************************************************************************)
MaxCalls == 3

T_continuous == <<"continuous">>
T_interval == <<"interval">>

\* The crumb "c" with each poll_type a crumb file may give it.
PollCrumbSets ==
    { <<[name |-> <<"c">>, description |-> None,
         path |-> <<"[crumbs/c/c.sh]">>, poll_type |-> poll_type,
         poll_prompt |-> None]>> : poll_type \in {None, Some(T_continuous)} }

\* polling_session: poll_type = crumb.poll_type or "interval"
PollType(crumb) ==
    IF Truthy(crumb.poll_type) THEN crumb.poll_type[1] ELSE T_interval

Continuous == poll_crumb # None /\ PollType(poll_crumb[1]) = T_continuous

\* The lines the child of a continuous session may write to each stream.
ChildOutputs ==
    { [s \in Streams |-> 0],
      [s \in Streams |-> 1],
      [s \in Streams |-> IF s = "stdout" THEN 2 ELSE 0] }

\* What client.chat may do with an analysis prompt: raise, or reply.
AnalysisOutcomes == { None, Some(<<"o", "k">>) }

\* The line a child writes to a stream, the n-th from its end.
ChildLine(s, n) == <<IF s = "stdout" THEN "o" ELSE "e">> \o NatText(n) \o <<NL>>

\* _continuous_polling: the prompt sent for the new lines.
ContinuousPrompt(crumb, new_lines) ==
    PollPrompt(crumb) \o ScriptOutputHeading \o Join(<<>>, new_lines)

\* What no step of a session changes.
untouched ==
    <<crumbs, model, listed, code, code_sent, result_command, unit, poll_pc,
      log_ok, store>>

\* The state of the child process and of the tasks that read it.
process == <<child, child_lines, reader, accumulated_output>>
\* The position of the analysis loop in the accumulated output.
analysis == <<last_analyzed_length, current_length, submitted>>

\* send_prompt up to its await of client.chat.
ChatBegins(prompt, command_mode) ==
    /\ Turns < MaxCalls
    /\ system_prompt' = RefreshedPrompt(system_prompt, crumbs)
    /\ messages' = Asked(messages, system_prompt, crumbs, prompt, None, command_mode)
    /\ chats' = chats + 1
    /\ in_flight' = in_flight + 1

\* polling_session up to the first await of the session: the shutdown
\* event and the output list are new and the SIGINT handler is installed.
SessionStarts(crumb) ==
    /\ phase' = "polling"
    /\ poll_crumb' = Some(crumb)
    /\ poll_result' = None
    /\ shutdown' = FALSE
    /\ handler' = TRUE
    /\ accumulated_output' = <<>>
    /\ reader' = [s \in Streams |-> "off"]
    /\ last_analyzed_length' = 0
    /\ current_length' = 0
    /\ submitted' = <<>>
    /\ main_pc' = IF PollType(crumb) = T_continuous THEN "spawn" ELSE "test"
    /\ notice' = "Starting polling session"
    /\ UNCHANGED <<messages, system_prompt, chats, in_flight, child, child_lines,
                   spawned, last_spawn, ui, untouched>>

\* The session returns to its caller, or an exception leaves it: the finally
\* of _handle_poll_command resets running_polling.
SessionReturns(raised) ==
    /\ main_pc' = "off"
    /\ running_polling' = FALSE
    /\ phase' = IF raised THEN "crashed"
                ELSE IF running_polling THEN "prompt" ELSE "exited"

\* ducky(): the interactive session begins.
TaskStartInteractive ==
    /\ phase = "main"
    /\ phase' = "prompt"
    /\ UNCHANGED <<messages, system_prompt, chats, text, notice, spawned, last_spawn,
                   poll, tasks, ui, untouched>>

\* ducky(): the --poll argument names the crumb.
TaskPollArgument ==
    /\ phase = "main"
    /\ SessionStarts(CrumbNamed(<<"c">>)[1])
    /\ UNCHANGED <<running_polling, text, typed>>

\* _handle_poll_command for "/poll c": the handler awaits the session.
TaskEnterPoll ==
    /\ phase = "prompt" /\ typed = <<>>
    /\ text' = <<"/", "p", "o", "l", "l", " ", "c">>
    /\ running_polling' = TRUE
    /\ SessionStarts(CrumbNamed(<<"c">>)[1])
    /\ UNCHANGED typed

\* _process_text, the last branch, up to the await of client.chat.
PromptAsked ==
    /\ phase = "prompt" /\ typed = <<>>
    /\ text' = <<"g", "o">>
    /\ ChatBegins(text', TRUE)
    /\ phase' = "chatting"
    /\ UNCHANGED <<notice, spawned, last_spawn, poll, main_pc, process, analysis,
                   handler, typed, ui, untouched>>

\* _process_text, the last branch, after client.chat returned or raised.
PromptAnswered ==
    /\ phase = "chatting"
    /\ in_flight' = in_flight - 1
    /\ \E outcome \in ChatOutcomes :
        IF outcome = None
        THEN /\ phase' = "crashed"
             /\ UNCHANGED <<messages, ui>>
        ELSE /\ phase' = "prompt"
             /\ messages' = Answered(messages, outcome[1])
             /\ Suggested(ExtractCommand(outcome[1]))
    /\ UNCHANGED <<system_prompt, chats, text, notice, spawned, last_spawn, poll,
                   main_pc, process, analysis, handler, typed, untouched>>

\* _process_text for an empty line with a command pending: _run_last_command
\* up to the awaits of run_shell_command.  Nothing has been assigned yet.
RunLastBegins ==
    /\ phase = "prompt" /\ typed = <<>>
    /\ Truthy(pending_command) /\ Truthy(last_command)
    /\ Turns < MaxCalls
    /\ text' = <<>>
    /\ phase' = "running"
    /\ spawned' = spawned + 1
    /\ last_spawn' = Some(last_command[1])
    /\ UNCHANGED <<messages, system_prompt, chats, notice, poll, tasks, ui, untouched>>

\* _run_last_command after run_shell_and_print has returned: the result is
\* folded, then the three fields are assigned.
RunLastEnds ==
    /\ phase = "running"
    /\ \E result \in ShellResults :
          messages' = Folded(messages, last_command[1], result)
    /\ last_shell_output' = TRUE
    /\ pending_command' = None
    /\ last_command' = None
    /\ phase' = "prompt"
    /\ UNCHANGED <<system_prompt, chats, text, notice, spawned, last_spawn, poll, tasks,
                   untouched>>

\* The await of run_shell_command raises: create_subprocess_shell fails with
\* OSError, or the task is cancelled while the command runs (Ctrl+C at the
\* terminal).  The exception leaves _run_last_command before its assignments.
RunLastRaises ==
    /\ phase = "running"
    /\ phase' = "crashed"
    /\ UNCHANGED <<messages, system_prompt, chats, text, notice, spawned, last_spawn,
                   poll, tasks, ui, untouched>>

\* _interval_polling: the test of the while loop; when the event is not set
\* run_shell_command spawns the crumb's script and awaits communicate().
IntervalTest ==
    /\ main_pc = "test" /\ ~Continuous
    /\ IF shutdown
       THEN /\ handler' = FALSE
            /\ SessionReturns(FALSE)
            /\ UNCHANGED <<child, spawned, last_spawn>>
       ELSE /\ Turns < MaxCalls
            /\ child' = "running"
            /\ spawned' = spawned + 1
            /\ last_spawn' = Some(poll_crumb[1].path)
            /\ main_pc' = "communicate"
            /\ UNCHANGED <<phase, running_polling, handler>>
    /\ UNCHANGED <<messages, system_prompt, chats, text, notice, shutdown, poll_crumb,
                   poll_result, in_flight, child_lines, reader, accumulated_output,
                   analysis, typed, ui, untouched>>

\* _interval_polling: communicate() returns, the child has ended and is
\* reaped, and send_prompt is called with its output.
IntervalCommunicated ==
    /\ main_pc = "communicate"
    /\ \E result \in ShellResults :
        /\ poll_result' = Some(result)
        /\ ChatBegins(FullPrompt(poll_crumb[1], result), FALSE)
    /\ child' = "gone"
    /\ main_pc' = "chatting"
    /\ UNCHANGED <<phase, text, notice, spawned, last_spawn, running_polling, shutdown,
                   poll_crumb, child_lines, reader, accumulated_output, analysis,
                   handler, typed, ui, untouched>>

\* _interval_polling: client.chat returned, or raised and the exception
\* leaves the session through its finally.
IntervalAnswered ==
    /\ main_pc = "chatting" /\ ~Continuous
    /\ in_flight' = in_flight - 1
    /\ \E outcome \in AnalysisOutcomes :
        IF outcome = None
        THEN /\ handler' = FALSE
             /\ SessionReturns(TRUE)
             /\ UNCHANGED messages
        ELSE /\ messages' = Answered(messages, outcome[1])
             /\ main_pc' = "sleep"
             /\ UNCHANGED <<phase, running_polling, handler>>
    /\ UNCHANGED <<system_prompt, chats, text, notice, spawned, last_spawn, shutdown,
                   poll_crumb, poll_result, process, analysis, typed, ui, untouched>>

\* _interval_polling: asyncio.sleep(interval) returns.
IntervalSleep ==
    /\ main_pc = "sleep" /\ ~Continuous
    /\ main_pc' = "test"
    /\ UNCHANGED <<phase, messages, system_prompt, chats, text, notice, spawned,
                   last_spawn, running_polling, shutdown, poll_crumb, poll_result,
                   in_flight, process, analysis, handler, typed, ui, untouched>>

\* _continuous_polling: create_subprocess_shell returns the child, the two
\* read_stream tasks are created.
ContinuousSpawn ==
    /\ main_pc = "spawn"
    /\ Turns < MaxCalls
    /\ child' = "running"
    /\ child_lines' \in ChildOutputs
    /\ reader' = [s \in Streams |-> "run"]
    /\ spawned' = spawned + 1
    /\ last_spawn' = Some(poll_crumb[1].path)
    /\ main_pc' = "test"
    /\ UNCHANGED <<phase, messages, system_prompt, chats, text, notice, running_polling,
                   shutdown, poll_crumb, poll_result, in_flight, accumulated_output,
                   analysis, handler, typed, ui, untouched>>

\* A read_stream that sends every line it reads to the model.
ReadStreamAnalyzing(s) ==
    /\ reader[s] = "run"
    /\ ~shutdown /\ child_lines[s] > 0
    /\ accumulated_output' = Append(accumulated_output, ChildLine(s, child_lines[s]))
    /\ child_lines' = [child_lines EXCEPT ![s] = @ - 1]
    /\ in_flight' = in_flight + 1
    /\ UNCHANGED <<phase, messages, system_prompt, chats, text, notice, spawned,
                   last_spawn, poll, main_pc, child, reader, analysis, handler, typed,
                   ui, untouched>>

\* read_stream for the stream s, one turn of its loop: it ends when the
\* event is set or readline returns b"" (the child has closed the pipe),
\* and appends the line when readline returns one.  A readline that times
\* out leaves everything as it is.
ReadStream(s) ==
    /\ reader[s] = "run"
    /\ IF shutdown
       THEN /\ reader' = [reader EXCEPT ![s] = "done"]
            /\ UNCHANGED <<accumulated_output, child_lines>>
       ELSE \/ /\ child_lines[s] > 0
               /\ accumulated_output' =
                      Append(accumulated_output, ChildLine(s, child_lines[s]))
               /\ child_lines' = [child_lines EXCEPT ![s] = @ - 1]
               /\ UNCHANGED reader
            \/ /\ child_lines[s] = 0 /\ child # "running"
               /\ reader' = [reader EXCEPT ![s] = "done"]
               /\ UNCHANGED <<accumulated_output, child_lines>>
    /\ UNCHANGED <<phase, messages, system_prompt, chats, text, notice, spawned,
                   last_spawn, poll, main_pc, in_flight, child, analysis, handler,
                   typed, ui, untouched>>

ReadStreams == \E s \in Streams : ReadStream(s)

\* The child of a continuous session ends on its own; the event loop reaps it.
ChildExits ==
    /\ child = "running" /\ main_pc # "communicate"
    /\ child' = "gone"
    /\ UNCHANGED <<phase, messages, system_prompt, chats, text, notice, spawned,
                   last_spawn, poll, main_pc, in_flight, child_lines, reader,
                   accumulated_output, analysis, handler, typed, ui, untouched>>

\* _continuous_polling: the test of the while loop.
ContinuousTest ==
    /\ main_pc = "test" /\ Continuous
    /\ main_pc' = IF shutdown THEN "finally" ELSE "sleep"
    /\ UNCHANGED <<phase, messages, system_prompt, chats, text, notice, spawned,
                   last_spawn, running_polling, shutdown, poll_crumb, poll_result,
                   in_flight, process, analysis, handler, typed, ui, untouched>>

\* _continuous_polling: asyncio.sleep(interval) returns; the lines gained
\* since the last analysis, if any, are sent to the model.
ContinuousSleep ==
    /\ main_pc = "sleep" /\ Continuous
    /\ current_length' = Len(accumulated_output)
    /\ IF current_length' > last_analyzed_length
       THEN LET new_lines == SubSeq(accumulated_output, last_analyzed_length + 1,
                                    Len(accumulated_output))
            IN /\ ChatBegins(ContinuousPrompt(poll_crumb[1], new_lines), FALSE)
               /\ submitted' = Append(submitted, new_lines)
               /\ main_pc' = "chatting"
       ELSE /\ main_pc' = "test"
            /\ UNCHANGED <<messages, system_prompt, chats, in_flight, submitted>>
    /\ UNCHANGED <<phase, text, notice, spawned, last_spawn, running_polling, shutdown,
                   poll_crumb, poll_result, process, last_analyzed_length, handler,
                   typed, ui, untouched>>

\* A _continuous_polling that takes every line read by the end of the model
\* call as analysed.
ContinuousAnsweredSkipping ==
    /\ main_pc = "chatting" /\ Continuous
    /\ in_flight' = in_flight - 1
    /\ \E outcome \in AnalysisOutcomes :
        IF outcome = None
        THEN /\ main_pc' = "finally raising"
             /\ UNCHANGED <<messages, last_analyzed_length>>
        ELSE /\ messages' = Answered(messages, outcome[1])
             /\ last_analyzed_length' = Len(accumulated_output)
             /\ main_pc' = "test"
    /\ UNCHANGED <<phase, system_prompt, chats, text, notice, spawned, last_spawn,
                   running_polling, shutdown, poll_crumb, poll_result, process,
                   current_length, submitted, handler, typed, ui, untouched>>

\* _continuous_polling: client.chat returned, or raised and the exception
\* reaches the finally.
ContinuousAnswered ==
    /\ main_pc = "chatting" /\ Continuous
    /\ in_flight' = in_flight - 1
    /\ \E outcome \in AnalysisOutcomes :
        IF outcome = None
        THEN /\ main_pc' = "finally raising"
             /\ UNCHANGED <<messages, last_analyzed_length>>
        ELSE /\ messages' = Answered(messages, outcome[1])
             /\ last_analyzed_length' = current_length
             /\ main_pc' = "test"
    /\ UNCHANGED <<phase, system_prompt, chats, text, notice, spawned, last_spawn,
                   running_polling, shutdown, poll_crumb, poll_result, process,
                   current_length, submitted, handler, typed, ui, untouched>>

\* A finally of _continuous_polling that leaves the child as it is.
ContinuousFinallySparing ==
    /\ main_pc \in {"finally", "finally raising"}
    /\ handler' = FALSE
    /\ SessionReturns(main_pc = "finally raising")
    /\ UNCHANGED <<messages, system_prompt, chats, text, notice, spawned, last_spawn,
                   shutdown, poll_crumb, poll_result, in_flight, process, analysis,
                   typed, ui, untouched>>

\* _continuous_polling, the finally: process.kill(), then the await of
\* process.wait().  kill() raises ProcessLookupError for a child that has
\* ended already, and that exception leaves the finally at once.
ContinuousFinally ==
    /\ main_pc \in {"finally", "finally raising"}
    /\ IF child = "running"
       THEN /\ child' = "killed"
            /\ main_pc' = IF main_pc = "finally" THEN "wait" ELSE "wait raising"
            /\ UNCHANGED <<phase, running_polling>>
       ELSE /\ SessionReturns(TRUE)
            /\ UNCHANGED child
    /\ UNCHANGED <<messages, system_prompt, chats, text, notice, spawned, last_spawn,
                   shutdown, poll_crumb, poll_result, in_flight, child_lines, reader,
                   accumulated_output, analysis, handler, typed, ui, untouched>>

\* _continuous_polling, the finally: process.wait() returns, the SIGINT
\* handler is removed and the session returns or re-raises.
ContinuousWaited ==
    /\ main_pc \in {"wait", "wait raising"}
    /\ child' = "gone"
    /\ handler' = FALSE
    /\ SessionReturns(main_pc = "wait raising")
    /\ UNCHANGED <<messages, system_prompt, chats, text, notice, spawned, last_spawn,
                   shutdown, poll_crumb, poll_result, in_flight, child_lines, reader,
                   accumulated_output, analysis, typed, ui, untouched>>

\* The task that runs the session is cancelled while it awaits the shell
\* command, the model call or the sleep: CancelledError is raised at the
\* await and caught by the except of the session, whose finally follows.
\* Nothing in run_shell_command handles it, so the child is left as it is.
Cancel ==
    /\ main_pc \in {"communicate", "chatting", "sleep"}
    /\ in_flight' = IF main_pc = "chatting" THEN in_flight - 1 ELSE in_flight
    /\ IF Continuous
       THEN /\ main_pc' = "finally"
            /\ UNCHANGED <<phase, running_polling, handler>>
       ELSE /\ handler' = FALSE
            /\ SessionReturns(FALSE)
    /\ notice' = "Polling stopped."
    /\ UNCHANGED <<messages, system_prompt, chats, text, spawned, last_spawn, shutdown,
                   poll_crumb, poll_result, process, analysis, typed, ui, untouched>>

\* signal_handler: Ctrl+C while the handler is installed sets the event.
TaskSigint ==
    /\ handler /\ ~shutdown
    /\ shutdown' = TRUE
    /\ notice' = "Stopping polling..."
    /\ UNCHANGED <<phase, messages, system_prompt, chats, text, spawned, last_spawn,
                   running_polling, poll_crumb, poll_result, main_pc, in_flight,
                   process, analysis, handler, typed, ui, untouched>>

\* The user types /stop-poll while the session runs: no prompt is open, so
\* the line waits at the terminal.
TypeStopPoll ==
    /\ phase = "polling" /\ typed = <<>>
    /\ typed' = <<T_stop_poll>>
    /\ UNCHANGED <<phase, messages, system_prompt, chats, text, notice, spawned,
                   last_spawn, poll, main_pc, in_flight, process, analysis, handler,
                   ui, untouched>>

\* _stop_polling
StopPolling ==
    /\ notice' = IF ~running_polling THEN "No polling session is currently running."
                 ELSE "Stopping polling..."
    /\ UNCHANGED <<phase, messages, system_prompt, chats, spawned, last_spawn, poll,
                   main_pc, in_flight, process, analysis, handler, ui, untouched>>

\* The prompt reads the line that waited at the terminal.
EnterStopPoll ==
    /\ phase = "prompt" /\ typed # <<>>
    /\ text' = Head(typed)
    /\ typed' = Tail(typed)
    /\ StopPolling

TaskInit ==
    /\ phase = "main"
    /\ messages = <<Msg("system", BasePrompt)>>
    /\ system_prompt = BasePrompt
    /\ crumbs \in PollCrumbSets
    /\ model = DefaultModel
    /\ listed = 0
    /\ code = None
    /\ code_sent = FALSE
    /\ last_command = None
    /\ pending_command = None
    /\ last_shell_output = FALSE
    /\ result_command = None
    /\ text = <<>>
    /\ notice = ""
    /\ chats = 0
    /\ spawned = 0
    /\ last_spawn = None
    /\ running_polling = FALSE
    /\ poll_pc = "off"
    /\ shutdown = FALSE
    /\ poll_crumb = None
    /\ poll_result = None
    /\ call = NoCall
    /\ returned = None
    /\ TasksIdle
    /\ log_ok = TRUE
    /\ store = [kind |-> Missing, entries |-> NoEntries]

\* The steps of the task that runs the session.
SessionNext ==
    \/ IntervalTest
    \/ IntervalCommunicated
    \/ IntervalAnswered
    \/ IntervalSleep
    \/ ContinuousSpawn
    \/ ContinuousTest
    \/ ContinuousSleep
    \/ ContinuousAnswered
    \/ ContinuousFinally
    \/ ContinuousWaited

TaskNext ==
    \/ TaskStartInteractive
    \/ TaskPollArgument
    \/ TaskEnterPoll
    \/ PromptAsked
    \/ PromptAnswered
    \/ RunLastBegins
    \/ RunLastEnds
    \/ RunLastRaises
    \/ SessionNext
    \/ ReadStreams
    \/ ChildExits
    \/ Cancel
    \/ TaskSigint
    \/ TypeStopPoll
    \/ EnterStopPoll

TaskSpec == TaskInit /\ [][TaskNext]_vars

\* The event loop runs every task that can take a step; the user, the
\* child and whoever cancels are under no obligation.
FairTaskSpec ==
    TaskSpec /\ WF_vars(SessionNext) /\ WF_vars(ReadStreams) /\ WF_vars(PromptAnswered)

(***************************************************************************)
(* Properties.                                                             *)
(*                                                                         *)
(* A step of the interactive loop is recognised by the line it read:       *)
(* every action taken at the prompt sets text to that line.  A turn whose  *)
(* model call raised leaves the loop (phase "crashed"); a turn that        *)
(* returned leaves it at the prompt.                                       *)
(***************************************************************************)
AtPrompt == phase = "prompt"

\* The step handles an empty line.
EmptyStep == AtPrompt /\ Route(text') = "empty"
\* The step is the run-last action: /run, :run or Ctrl+R.
RunLastStep == AtPrompt /\ (Route(text') = "run" \/ text' = RUN_LAST)
\* The step handles a line that starts with "!".
ShellStep == AtPrompt /\ text' # RUN_LAST /\ text' # COPY_LAST /\ text' # EOF
                /\ Route(text') = "shell"
\* The step is a free-text turn, and the model replied.
RepliedPromptStep ==
    /\ AtPrompt /\ text' \in InputTexts /\ Route(text') = "prompt"
    /\ phase' = "prompt"
\* The model call of the step raised.
FailedCallStep == phase' = "crashed" /\ phase # "crashed"

\* The history grew by exactly the folded run of command: a user message
\* "!"+command, then an assistant message that holds a folded output.
GainedFoldOf(command) ==
    /\ Len(messages') = Len(messages) + 2
    /\ SubSeq(messages', 1, Len(messages)) = messages
    /\ messages'[Len(messages) + 1] = Msg("user", <<"!">> \o command)
    /\ messages'[Len(messages) + 2].role = "assistant"
    /\ \E result \in ShellResults :
          messages'[Len(messages) + 2].content = FoldedOutput(result)

\* C1: in every reachable state the history is not empty, its first message
\* has role system, and no other message has role system.
C1_SystemMessageFirstAndUnique ==
    /\ Len(messages) >= 1
    /\ messages[1].role = "system"
    /\ \A i \in 2..Len(messages) : messages[i].role # "system"

\* C1, witness: a history cleared after a model turn and then grown again by
\* a shell run.
C1_Witness ==
    /\ chats = 1 /\ spawned = 1
    /\ Len(messages) = 3
    /\ messages[2].role = "user" /\ messages[3].role = "assistant"

\* C2: a process is spawned only by a step the user asked for: at the prompt
\* by an empty line, /run, :run or Ctrl+R (which run the suggested command)
\* or by a "!" line (which runs the user's own command); in piped mode only
\* after the answer y or yes; in a polling session, which the user started,
\* the crumb's own script.  A free-text turn never runs the command it
\* extracts, and an empty answer or the end of input runs nothing.
C2_RunOnlyOnUserAction ==
    [][ spawned' # spawned =>
          \/ /\ EmptyStep \/ RunLastStep
             /\ Truthy(last_command) /\ last_spawn' = last_command
          \/ /\ ShellStep
             /\ last_spawn' = Some(Strip(Tail(Strip(text'))))
          \/ /\ phase = "confirm"
             /\ text' \in {<<"y">>, <<" ", "Y", "E", "S", " ">>, <<"y", "e", "s">>}
             /\ last_spawn' = result_command
          \/ /\ phase = "polling"
             /\ last_spawn' = Some(poll_crumb[1].path) ]_vars

\* C2, witness: the piped prompt's command was run after a yes.
C2_Witness ==
    /\ phase = "exited" /\ spawned = 1
    /\ Truthy(result_command) /\ last_spawn = result_command
    /\ text = <<" ", "Y", "E", "S", " ">>

\* C3: an empty line with a pending command runs that command once, appends
\* its folded result to the history, clears pending_command and last_command
\* and sets the output-available flag.
C3_EmptyRunsPending ==
    [][ EmptyStep /\ Truthy(pending_command) =>
          /\ spawned' = spawned + 1
          /\ last_spawn' = pending_command
          /\ chats' = chats
          /\ GainedFoldOf(pending_command[1])
          /\ pending_command' = None
          /\ last_command' = None
          /\ last_shell_output' = TRUE ]_vars

\* C3, witness: the suggested command ls was run by an empty line.
C3_Witness ==
    /\ AtPrompt /\ Route(text) = "empty"
    /\ chats = 1 /\ spawned = 1
    /\ last_spawn = Some(<<"l", "s">>)
    /\ Len(messages) = 5
    /\ messages[4] = Msg("user", <<"!", "l", "s">>)
    /\ pending_command = None /\ last_command = None /\ last_shell_output

\* C4 as claimed: an empty line with no pending command and the flag true
\* sends the analysis prompt built from the last assistant message, and the
\* flag is false afterwards (the model call not failing).
C4_EmptyExplainsAndClears ==
    [][ EmptyStep /\ ~Truthy(pending_command) /\ last_shell_output
            /\ phase' = "prompt" =>
          /\ chats' = chats + 1
          /\ last_shell_output' = FALSE ]_vars

\* C5: after a free-text turn whose reply yields a command c, last_command
\* and pending_command are both c, and nothing was executed by the turn:
\* the command pending before is superseded, not run.
C5_SuggestionSupersedes ==
    [][ RepliedPromptStep =>
          LET content == messages'[Len(messages')].content
              command == ExtractCommand(content)
          IN /\ messages'[Len(messages')].role = "assistant"
             /\ command # None =>
                   /\ last_command' = command
                   /\ pending_command' = command
             /\ content = <<"l", "s">> => pending_command' = Some(<<"l", "s">>)
             /\ spawned' = spawned
             /\ last_spawn' = last_spawn ]_vars

\* C5, witness: the pending pwd was superseded by ls and never run.
C5_Witness ==
    /\ AtPrompt /\ chats = 2 /\ spawned = 0
    /\ Len(messages) = 5
    /\ ExtractCommand(messages[3].content) = Some(<<"p", "w", "d">>)
    /\ messages[5].content = <<"l", "s">>
    /\ last_command = Some(<<"l", "s">>)
    /\ pending_command = Some(<<"l", "s">>)

\* C6 as claimed: after every free-text turn for which the model replied,
\* the output-available flag is true.
C6_FlagTrueAfterReply ==
    [][ RepliedPromptStep => last_shell_output' = TRUE ]_vars

\* C6 as amended: a free-text turn for which the model replied leaves the
\* output-available flag as it was, whether or not a command was extracted.
C6_FlagKeptByReply ==
    [][ RepliedPromptStep => last_shell_output' = last_shell_output ]_vars

\* C6, witness: a reply with no command was received and the flag is false.
C6_Witness ==
    /\ AtPrompt /\ Route(text) = "prompt"
    /\ chats = 1 /\ spawned = 0
    /\ messages[Len(messages)] = Msg("assistant", <<>>)
    /\ pending_command = None
    /\ ~last_shell_output

\* C7 as claimed: a line that starts with "!" runs the rest of the line
\* once, the history gains the folded run, pending_command is cleared and
\* the flag is true.
C7_BangAlwaysRuns ==
    [][ ShellStep =>
          /\ spawned' = spawned + 1
          /\ GainedFoldOf(Strip(Tail(Strip(text'))))
          /\ pending_command' = None
          /\ last_shell_output' = TRUE ]_vars

\* C7 as amended: when the rest of the line is not blank it is run once and
\* folded into the history; when it is blank nothing is run and the history
\* is unchanged.  Either way pending_command is cleared and the flag is true.
C7_BangRunsNonBlank ==
    [][ ShellStep =>
          LET command == Strip(Tail(Strip(text')))
          IN /\ command # <<>> =>
                   /\ spawned' = spawned + 1
                   /\ last_spawn' = Some(command)
                   /\ GainedFoldOf(command)
             /\ command = <<>> =>
                   /\ spawned' = spawned
                   /\ messages' = messages
             /\ chats' = chats
             /\ pending_command' = None
             /\ last_shell_output' = TRUE ]_vars

\* C7, witness: "!ls" was run while pwd was pending, and ls printed hi.
C7_Witness ==
    /\ AtPrompt /\ Route(text) = "shell"
    /\ chats = 1 /\ spawned = 1
    /\ last_command = Some(<<"p", "w", "d">>)
    /\ pending_command = None
    /\ last_shell_output
    /\ messages[4] = Msg("user", <<"!", "l", "s">>)
    /\ messages[5] = Msg("assistant", <<"h", "i">>)

\* C8: with no last command, no pending command and the flag false, an
\* empty line and the run-last action run nothing, call nothing and leave
\* the three fields and the history unchanged, so that repeating them
\* changes nothing either.
C8_IdleRunLastChangesNothing ==
    [][ (EmptyStep \/ RunLastStep)
            /\ last_command = None /\ pending_command = None /\ ~last_shell_output =>
          /\ UNCHANGED <<last_command, pending_command, last_shell_output, messages>>
          /\ UNCHANGED <<spawned, chats, phase>>
          /\ notice' = IF EmptyStep THEN "Nothing to run yet."
                       ELSE "No suggested command available yet." ]_vars

\* C8, witness: the run-last action was taken with nothing to run, after an
\* earlier suggestion had been cleared.
C8_Witness ==
    /\ AtPrompt /\ text = RUN_LAST
    /\ notice = "No suggested command available yet."
    /\ last_command = None /\ pending_command = None /\ ~last_shell_output
    /\ chats = 1

\* C9: when the model call of an interactive turn raises, last_command,
\* pending_command and the flag keep the values they had before the turn.
C9_FailedCallKeepsFields ==
    [][ AtPrompt /\ FailedCallStep =>
          UNCHANGED <<last_command, pending_command, last_shell_output>> ]_vars

\* C9, witness: the model call of an explain turn raised, the flag true.
C9_Witness ==
    /\ phase = "crashed" /\ Route(text) = "empty"
    /\ chats = 1 /\ spawned = 1
    /\ last_shell_output

\* C10 as claimed: when the model call of a turn raises, the history is the
\* one before the turn.
C10_FailedCallKeepsHistory ==
    [][ FailedCallStep => messages' = messages ]_vars


\* The model call of the step raised: client.chat was called and no assistant
\* message came back, so the history ends with the turn's user message.
CallRaisedStep ==
    /\ chats' = chats + 1
    /\ messages'[Len(messages')].role = "user"

\* C11: when the model call of an interactive turn fails, the loop reports it
\* and goes on to read the next line: after the step the interface is at the
\* prompt again.
C11_FailedCallKeepsLoop ==
    [][(AtPrompt /\ CallRaisedStep) => phase' = "prompt"]_vars


\* The step handles /clear or /reset.
ClearStep == AtPrompt /\ text' \in InputTexts /\ Route(text') = "clear"

\* C12: /clear or /reset, from any state, leaves the history as exactly the
\* single system message it began with, empties last_command and
\* pending_command and makes the output-available flag false.
C12_ClearResetsAll ==
    [][ClearStep =>
          /\ messages' = <<messages[1]>>
          /\ messages'[1].role = "system"
          /\ last_command' = None
          /\ pending_command' = None
          /\ last_shell_output' = FALSE]_vars

\* C12, witness: the history was cleared after a model turn and a shell run, so
\* four messages were dropped and the flag was reset.
C12_Witness ==
    /\ phase = "prompt"
    /\ Route(text) = "clear"
    /\ chats = 1 /\ spawned = 1
    /\ Len(messages) = 1
    /\ ~last_shell_output


\* The step handles one of the meta-commands other than /clear and /reset.
MetaStep ==
    /\ AtPrompt /\ text' \in InputTexts
    /\ Route(text') \in {"help", "crumbs", "model", "local", "cloud", "poll", "stop-poll"}

\* C13: /help, /crumbs, /model, /local, /cloud, /poll and /stop-poll leave
\* last_command, pending_command and the output-available flag unchanged;
\* for /poll that covers every step of the polling session it starts.
C13_MetaCommandsKeepFields ==
    [][(MetaStep \/ phase = "polling") => UNCHANGED ui]_vars

\* C13, witness: the model was switched by /model or /cloud while a command
\* was pending and the flag was true.
C13_Witness ==
    /\ phase = "prompt"
    /\ Route(text) \in {"model", "cloud"}
    /\ model # DefaultModel
    /\ Truthy(pending_command)
    /\ last_shell_output


\* C14: messages are only ever appended: a step other than /clear or /reset
\* leaves every user and assistant message of the history where it was, with
\* the same role and content (the system message may be refreshed in place).
C14_AppendOnly ==
    [][~ClearStep =>
          /\ Len(messages') >= Len(messages)
          /\ \A i \in 2..Len(messages) : messages'[i] = messages[i]]_vars

\* C14, witness: a model turn, with the system message refreshed for a crumb,
\* came after a folded shell run, and the four messages are all in place.
C14_Witness ==
    /\ Len(messages) = 5
    /\ messages[1].content # BasePrompt
    /\ messages[2].role = "user" /\ StartsWith(messages[2].content, <<"!">>)
    /\ messages[3].role = "assistant"
    /\ messages[4].role = "user"
    /\ messages[5].role = "assistant"
    /\ chats = 1 /\ spawned = 1


\* run_shell_command has returned.
ShellReturned == call.fn = "run_shell_command" /\ returned # None

\* C15: running an empty command string spawns no process and yields a result
\* with returncode -1 and empty stdout and stderr, and returncode -1 is the
\* result of no other command.
C15_EmptyCommandNotRun ==
    ShellReturned =>
        /\ call.arg = <<>> =>
              /\ spawned = 0
              /\ returned[1] = [stdout |-> <<>>, stderr |-> <<>>, returncode |-> -1]
        /\ returned[1].returncode = -1 => call.arg = <<>>


\* The fold of run_shell_and_print has returned.
FoldReturned == call.fn = "run_shell_and_print" /\ returned # None

\* The three parts a folded message may have, for a result.
StdoutPart(result) == RStrip(result.stdout)
StderrPart(result) == <<"[stderr]", NL>> \o RStrip(result.stderr)
ExitPart(result) == <<"(exit status ">> \o IntText(result.returncode) \o <<")">>
BlankLine == <<NL, NL>>

\* C16: the folded message holds, in this order and parted by an empty line,
\* the stdout text if stdout is not blank, a [stderr] section if stderr is not
\* blank, and an exit-status line exactly when the return code is not 0; it
\* is the no-output marker exactly when none of the three is there.  A
\* non-zero exit is folded like any other result.
C16_FoldedParts ==
    FoldReturned =>
        LET result == call.arg
            out == Strip(result.stdout) # <<>>
            err == Strip(result.stderr) # <<>>
            bad == result.returncode # 0
            content == returned[1]
        IN /\ (out /\ err /\ bad) =>
                content = StdoutPart(result) \o BlankLine \o StderrPart(result)
                             \o BlankLine \o ExitPart(result)
           /\ (out /\ err /\ ~bad) =>
                content = StdoutPart(result) \o BlankLine \o StderrPart(result)
           /\ (out /\ ~err /\ bad) =>
                content = StdoutPart(result) \o BlankLine \o ExitPart(result)
           /\ (out /\ ~err /\ ~bad) => content = StdoutPart(result)
           /\ (~out /\ err /\ bad) =>
                content = StderrPart(result) \o BlankLine \o ExitPart(result)
           /\ (~out /\ err /\ ~bad) => content = StderrPart(result)
           /\ (~out /\ ~err /\ bad) => content = ExitPart(result)
           /\ (content = <<"(command produced no output)">>)
                <=> (~out /\ ~err /\ ~bad)

\* C16, witness: a result with output on both streams and the return code of
\* a signal was folded into three parts.
C16_Witness ==
    /\ FoldReturned
    /\ call.arg = [stdout |-> <<"h", "i", NL>>, stderr |-> <<"e", NL>>, returncode |-> -9]
    /\ returned[1] = <<"h", "i", NL, NL, "[stderr]", NL, "e", NL, NL,
                       "(exit status ", "-", "9", ")">>


\* _extract_command has returned.
ExtractReturned == call.fn = "_extract_command" /\ returned # None

\* The line starts, once trimmed, with the fence delimiter.
IsFenceLine(line) == StartsWith(Strip(line), Fence)
IsBlankLine(line) == Strip(line) = <<>>

\* The lines of a text that are not blank, in their order.
RECURSIVE Filled(_)
Filled(lines) ==
    IF lines = <<>> THEN <<>>
    ELSE IF IsBlankLine(Head(lines)) THEN Filled(Tail(lines))
    ELSE <<Head(lines)>> \o Filled(Tail(lines))

\* The text is one fenced block: a fence line, lines of which one at least
\* is not blank and none is a fence, and a fence line.
SingleFencedBlock(content) ==
    LET lines == SplitLines(content) IN
    /\ Len(lines) >= 3
    /\ IsFenceLine(lines[1])
    /\ IsFenceLine(lines[Len(lines)])
    /\ \A i \in 2..(Len(lines) - 1) : ~IsFenceLine(lines[i])
    /\ \E i \in 2..(Len(lines) - 1) : ~IsBlankLine(lines[i])

\* The non-blank lines between the fences, trimmed.
BlockLines(content) ==
    LET lines == SplitLines(content)
        inner == Filled(SubSeq(lines, 2, Len(lines) - 1))
    IN [i \in 1..Len(inner) |-> Strip(inner[i])]

\* A line as the single-line policy hands it out: none when nothing is left
\* before its first semicolon, else what is there, trimmed.
UpToSemicolon(line) ==
    LET trimmed == Strip(line)
        before == IF \E i \in 1..Len(trimmed) : trimmed[i] = ";"
                  THEN Strip(SubSeq(trimmed, 1,
                         (CHOOSE i \in 1..Len(trimmed) :
                             /\ trimmed[i] = ";"
                             /\ \A j \in 1..(i - 1) : trimmed[j] # ";") - 1))
                  ELSE trimmed
    IN IF before = <<>> THEN None ELSE Some(before)

\* C17 as claimed: for a text that is a single fenced block with N non-empty
\* lines the extractor returns those N lines joined by newline, without the
\* fence lines.
C17_BlockLinesJoined ==
    (ExtractReturned /\ SingleFencedBlock(call.arg)) =>
        returned[1] = Some(Join(<<NL>>, BlockLines(call.arg)))

\* C17 as amended: for a text that is a single fenced block the extractor
\* returns the first non-empty line of the block only, trimmed and cut at its
\* first semicolon, without the fence lines.
C17_BlockFirstLine ==
    (ExtractReturned /\ SingleFencedBlock(call.arg)) =>
        returned[1] = UpToSemicolon(BlockLines(call.arg)[1])

\* C17, witness: of a block of the two lines " a;b " and "ls" the extractor
\* returned "a".
C17_Witness ==
    /\ ExtractReturned
    /\ call.arg = Fence \o <<"s", "h", NL, " ", "a", ";", "b", " ", NL, "l", "s", NL>>
                    \o Fence
    /\ SingleFencedBlock(call.arg)
    /\ Len(BlockLines(call.arg)) = 2
    /\ returned[1] = Some(<<"a">>)


\* The first non-blank line of the text is plain text, outside any fence, and
\* further non-blank lines follow it.
PlainFirstLine(content) ==
    LET filled == Filled(SplitLines(content)) IN
    /\ Len(filled) >= 2
    /\ ~IsFenceLine(filled[1])

\* C18 as claimed: for a text whose first non-empty line is plain text
\* followed by further lines the extractor returns exactly that line,
\* trimmed and otherwise unmodified, and ignores the lines after it.
C18_FirstLineUnmodified ==
    (ExtractReturned /\ PlainFirstLine(call.arg)) =>
        returned[1] = Some(Strip(Filled(SplitLines(call.arg))[1]))

\* C18 as amended: for such a text the extractor returns that first line
\* trimmed and cut at its first semicolon, and ignores the lines after it.
C18_FirstLineCut ==
    (ExtractReturned /\ PlainFirstLine(call.arg)) =>
        returned[1] = UpToSemicolon(Filled(SplitLines(call.arg))[1])

\* C18, witness: of a blank line, the line " a;b ", a fence and the line "ls"
\* the extractor returned "a".
C18_Witness ==
    /\ ExtractReturned
    /\ call.arg = <<NL, " ", "a", ";", "b", " ", NL>> \o Fence \o <<NL, "l", "s">>
    /\ PlainFirstLine(call.arg)
    /\ returned[1] = Some(<<"a">>)


\* Every line of the text is blank or a fence delimiter line: the text has no
\* non-empty line, or only fences with nothing between them.
OnlyFences(content) ==
    LET filled == Filled(SplitLines(content)) IN
    \A i \in 1..Len(filled) : IsFenceLine(filled[i])

\* C19: for a text with no non-empty line, and for a text made only of fence
\* delimiter lines with no content between them, the extractor returns none.
C19_NothingToExtract ==
    (ExtractReturned /\ OnlyFences(call.arg)) => returned[1] = None

\* C19, witness: of a fence with a language, a blank line and two bare fences
\* the extractor returned none.
C19_Witness ==
    /\ ExtractReturned
    /\ call.arg = Fence \o <<"s", "h", NL, NL>> \o Fence \o <<NL>> \o Fence
    /\ OnlyFences(call.arg)
    /\ returned[1] = None


\* C20: last_command keeps its value until a model turn returns a new command
\* in its place, it is run, or /clear or /reset clears it; so a free-text
\* turn whose reply yields no command, a "!" run and an explain turn leave it
\* as it was.
C20_LastCommandPersists ==
    [][last_command' # last_command =>
          \/ RepliedPromptStep /\ Truthy(last_command')
          \/ /\ RunLastStep \/ EmptyStep
             /\ spawned' = spawned + 1
             /\ last_spawn' = last_command
          \/ ClearStep]_vars


\* The step handles a line whose first token is the name of a crumb the
\* assistant has.
ShortcutStep ==
    /\ AtPrompt /\ text' \in InputTexts
    /\ Words(text') # <<>>
    /\ CrumbNamed(Words(text')[1]) # None

\* C21: a line whose first token is the name of an existing crumb is not sent
\* to the model: the crumb is run through the shell, and the output-available
\* flag is true afterwards.
C21_ShortcutRuns ==
    [][ShortcutStep =>
          /\ chats' = chats
          /\ spawned' = spawned + 1
          /\ last_shell_output' = TRUE]_vars

(***************************************************************************)
(* Properties of the polling session, checked under TaskSpec.              *)
(***************************************************************************)
\* The session has returned to its caller or raised into it.
SessionOver == main_pc = "off" /\ poll_crumb # None

\* C22: at any instant at most one model call is in flight against the
\* shared history, whichever of the interactive loop, the analysis loop and
\* the stream readers is running.
C22_OneCallInFlight == in_flight <= 1

\* A model call of the analysis loop is in flight while a stream reader is
\* still running and has appended a line.
C22_Witness ==
    /\ in_flight = 1 /\ main_pc = "chatting" /\ Continuous
    /\ \E s \in Streams : reader[s] = "run"
    /\ accumulated_output # <<>>

C24_NoChildOutlivesCancel ==
    (SessionOver /\ ~Continuous) => child # "running"

\* C25: when a polling session is running and the user gives the /stop-poll
\* command, the session stops (behaviours that use up the calls of the
\* model are left out of the question).
C25_StopPollStops ==
    (running_polling /\ typed = <<T_stop_poll>>)
        ~> (~running_polling \/ Turns = MaxCalls)

\* A call that writes the transcript returns or raises.
LoggedCallStep == call.fn \in LoggedCalls /\ returned = None /\ returned' # None
\* A call of the crumb store returns or raises.
CrumbCallStep == call.fn \in CrumbCalls /\ returned = None /\ returned' # None

\* C26: a failure to write a transcript entry is not fatal: the prompt or
\* the shell run of the turn completes without the write error, the model is
\* called for the prompt and the run is folded into the history as they are
\* when the write succeeds.
C26_LogFailureNonFatal ==
    [][(LoggedCallStep /\ ~log_ok) =>
          /\ returned' # Some("OSError")
          /\ call.fn = "run_single_prompt" => chats' = chats + 1
          /\ call.fn = "run_shell_and_print with logger" => GainedFoldOf(call.arg)]_vars

\* The mapping a store is to be read as: its entries, and none when the
\* file is missing or corrupt.
ReadsAs(st) == IF st.kind = "object" THEN st.entries ELSE NoEntries

C28_PendingIsLast ==
    pending_command # None => last_command = pending_command

\* A reply has suggested a command, which is pending and is the last command.
C28_Witness ==
    /\ AtPrompt /\ Truthy(pending_command)
    /\ last_command = pending_command /\ chats = 1

\* The message folds the output of a shell run: an assistant message that
\* follows the user message "!"+command.
IsFoldAt(msgs, i) ==
    /\ i >= 2 /\ i <= Len(msgs)
    /\ msgs[i].role = "assistant"
    /\ msgs[i - 1].role = "user"
    /\ StartsWith(msgs[i - 1].content, T_bang)

\* C29: the output-available flag becomes true only in a step that runs a
\* shell command and folds its output into the history, so that a line "!"
\* with an empty remainder does not set it, and a state with the flag set
\* has a folded output in its history.
C29_FlagOnlyAfterFoldedRun ==
    [][(last_shell_output' /\ ~last_shell_output) =>
          /\ spawned' = spawned + 1
          /\ IsFoldAt(messages', Len(messages'))]_vars

\* The step is the explain path sending its prompt: an empty line with
\* nothing pending and the flag set, and a model call made.
ExplainSendsStep ==
    /\ EmptyStep /\ ~Truthy(pending_command) /\ last_shell_output
    /\ chats' = chats + 1

\* C30: whenever the explain path sends its prompt, the message it quotes,
\* the last of the history, is the folded output of a shell run and not a
\* reply of the model.
C30_ExplainQuotesFold ==
    [][ExplainSendsStep => IsFoldAt(messages, Len(messages))]_vars

\* C31: pending_command is cleared at the moment a run of it begins: it is
\* not set while the shell command is executing, nor after a run that failed
\* to spawn or was interrupted.
C31_PendingClearedAtRunStart ==
    [][(phase = "running" \/ phase' = "running") => pending_command' = None]_vars

\* C32: a suggested command is executed at most once per suggestion: a
\* run-last action (empty line, /run, :run, Ctrl+R) that executes something
\* leaves no last and no pending command, a run-last action without a last
\* command executes nothing, and only a model turn sets a last command.
C32_RunOncePerSuggestion ==
    [][ /\ ((EmptyStep \/ RunLastStep) /\ spawned' # spawned) =>
               (last_command' = None /\ pending_command' = None)
        /\ ((EmptyStep \/ RunLastStep) /\ ~Truthy(last_command)) =>
               (spawned' = spawned /\ last_spawn' = last_spawn)
        /\ (Truthy(last_command') /\ last_command' # last_command) =>
               chats' = chats + 1 ]_vars

\* The suggestion ls was run once, and the /run that followed ran nothing.
C32_Witness ==
    /\ AtPrompt /\ text = T_run
    /\ notice = "No suggested command available yet."
    /\ chats = 1 /\ spawned = 1 /\ last_spawn = Some(<<"l", "s">>)
    /\ last_command = None /\ pending_command = None

\* The step is one of a running session's loops and begins a blocking wait:
\* a script run, a model call or a sleep.  The creation of the child of
\* continuous polling comes before the loop and is not counted.
BeginsWait ==
    /\ main_pc \notin {"off", "spawn"}
    /\ \/ spawned' = spawned + 1
       \/ in_flight' = in_flight + 1
       \/ main_pc' = "sleep" /\ main_pc # "sleep"

\* C33: the polling loops look at the shutdown flag before each blocking
\* wait: once it is set, no task of the session begins a script run, a model
\* call or a sleep.
C33_NoWaitAfterShutdown ==
    [][shutdown => ~BeginsWait]_vars

\* C34: once the shutdown flag of a running session is set, the session
\* eventually returns with the SIGINT handler removed and running_polling
\* false (behaviours that use up the calls of the model are left out of the
\* question), and running_polling is false while the loop is at its prompt.
C34_ShutdownEndsSession ==
    /\ [](phase = "prompt" => ~running_polling)
    /\ (shutdown /\ phase = "polling")
          ~> ((main_pc = "off" /\ ~handler /\ ~running_polling) \/ Turns = MaxCalls)

\* A sequence of sequences, concatenated.
RECURSIVE Flatten(_)
Flatten(seqs) == IF seqs = <<>> THEN <<>> ELSE Head(seqs) \o Flatten(Tail(seqs))

\* C35: in continuous polling the lines sent for analysis, taken together
\* and in the order they were sent, are exactly the lines read so far up to
\* the last analysis: none twice, none skipped, in the order read, lines
\* that arrived during a model call included.
C35_LinesAnalysedOnce ==
    (Continuous /\ main_pc \in {"test", "sleep", "chatting"}) =>
        LET sent == Flatten(submitted) IN
        /\ Len(sent) <= Len(accumulated_output)
        /\ sent = SubSeq(accumulated_output, 1, Len(sent))
        /\ Len(sent) = IF main_pc = "chatting" THEN current_length
                       ELSE last_analyzed_length

\* Two analyses were made, the second of a line read after the first began.
C35_Witness ==
    /\ Continuous /\ main_pc = "test"
    /\ Len(submitted) = 2 /\ Len(submitted[1]) = 1 /\ Len(submitted[2]) = 1
    /\ last_analyzed_length = 2
    /\ Flatten(submitted) = accumulated_output

\* The messages after the first alternate user, assistant, user, assistant.
Alternates(msgs) ==
    /\ \A i \in 2..Len(msgs) :
          msgs[i].role = IF i % 2 = 0 THEN "user" ELSE "assistant"
    /\ Len(msgs) > 1 => msgs[Len(msgs)].role = "assistant"

\* C36: whenever no model call is in flight, the messages after the system
\* message alternate user, assistant, and the last of a history longer than
\* one message is an assistant message.  The states after the program
\* ended are left out of the question.
C36_HistoryAlternates ==
    (in_flight = 0 /\ phase \notin {"crashed", "exited"}) => Alternates(messages)

\* C37: refreshing the system prompt is idempotent: the content of the
\* system message is the base prompt, followed after the first model turn
\* by one crumb section when there are crumbs, however many turns were made.
C37_RefreshIdempotent ==
    /\ messages[1].role = "system"
    /\ messages[1].content =
          IF chats = 0 THEN BasePrompt ELSE RefreshedPrompt(BasePrompt, crumbs)

\* The first line of the text that is neither blank nor a fence line, if any.
RECURSIVE FirstCommandLine(_)
FirstCommandLine(lines) ==
    IF lines = <<>> THEN None
    ELSE IF IsBlankLine(Head(lines)) \/ IsFenceLine(Head(lines))
         THEN FirstCommandLine(Tail(lines))
         ELSE Some(Head(lines))

\* C38: the command the extractor returns is a single line: it is the first
\* line that is neither blank nor a fence line, trimmed and cut at its first
\* semicolon, it holds no ';' and no newline, and it is never the empty
\* string: none is returned in its place.
C38_SingleLineCommand ==
    ExtractReturned =>
        /\ returned[1] # Some(<<>>)
        /\ returned[1] # None =>
              LET command == returned[1][1]
                  first == FirstCommandLine(SplitLines(call.arg))
              IN /\ \A i \in 1..Len(command) : command[i] \notin {";", NL}
                 /\ first # None
                 /\ returned[1] = UpToSemicolon(first[1])

\* C38, witness: of a line of a space, the line " a;b " and the line ";x"
\* the extractor returned "a".
C38_Witness ==
    /\ ExtractReturned
    /\ call.arg = <<" ", NL, " ", "a", ";", "b", " ", NL, ";", "x">>
    /\ returned[1] = Some(<<"a">>)

============================================================================
